---- MODULE Spec2Model ----
(***************************************************************************)
(* A model of asagi's request dispatch: the middleware chain executor      *)
(* (runChain), the per-request Context, output normalisation               *)
(* (ensureResponse), route matching in the server and in the in-process    *)
(* caller, on a single-threaded JavaScript event loop (a synchronous call  *)
(* stack, a FIFO microtask queue, and external I/O completions).           *)
(***************************************************************************)
EXTENDS Integers, Sequences, FiniteSets, TLC

\* The number of requests dispatched in one behaviour.
MaxReq == 2

(***************************************************************************)
(* Responses, bodies and headers.                                          *)
(*   A body is [enc, val]: enc says how val was encoded ("none" for a null *)
(*   body, "raw" for a string passed through, a transformer's name for a   *)
(*   json body it stringified, "value" for a payload not yet serialised).  *)
(*   Headers are a set of <<name, value>> pairs with distinct names.       *)
(***************************************************************************)
NullBody == [enc |-> "none", val |-> ""]

RawBody(s) == [enc |-> "raw", val |-> s]

Payload(v) == [enc |-> "value", val |-> v]

\* A value that holds a Date object (JSON.stringify writes its ISO string).
Live(v) == [enc |-> "live", val |-> v]

HasHeader(h, n) == \E p \in h : p[1] = n

SetHeader(h, n, v) == {p \in h : p[1] # n} \cup {<<n, v>>}

\* A status that is undefined: init.status given as undefined.
NoStatus == -1

\* new Response(body, init) throws a RangeError for a status outside
\* 200..599. For a body with a null-body status the Fetch standard asks for
\* a TypeError, which some runtimes throw and others do not: both outcomes
\* are possible.
NullBodyStatuses == {204, 205, 304}

ResponseThrows(body, status) ==
    IF status = NoStatus THEN {FALSE}
    ELSE IF status < 200 \/ status > 599 THEN {TRUE}
    ELSE IF body.enc # "none" /\ status \in NullBodyStatuses THEN {TRUE, FALSE}
    ELSE {FALSE}

\* The content-type the platform gives a FormData body.
MultipartType == "multipart/form-data; boundary=x"

\* new Response(body, init): a string body with no content-type header gets
\* the platform's text/plain default, a FormData body the multipart type
\* with its boundary; status defaults to 200.
NewResponse(body, status, headers) ==
    [status  |-> IF status = NoStatus THEN 200 ELSE status,
     body    |-> body,
     headers |-> IF body.enc = "raw" /\ ~HasHeader(headers, "content-type")
                 THEN SetHeader(headers, "content-type", "text/plain;charset=UTF-8")
                 ELSE IF body.enc = "formdata" /\ ~HasHeader(headers, "content-type")
                 THEN SetHeader(headers, "content-type", MultipartType)
                 ELSE headers]

\* Context constructor: this.res = new Response(null, { status: 204 })
InitialRes == NewResponse(NullBody, 204, {})

\* runChain's catch: new Response('Internal Server Error', { status: 500 })
Res500 == NewResponse(RawBody("Internal Server Error"), 500, {})

\* server.fetch: new Response('Not Found', { status: 404 })
Res404 == NewResponse(RawBody("Not Found"), 404, {})

(***************************************************************************)
(* Outputs: what a step returns.  type "none" is undefined, type           *)
(* "response" is a raw Response (its fields are the response's).           *)
(***************************************************************************)
NoOutput == [type |-> "none", body |-> NullBody, status |-> 0, headers |-> {}]

\* Context.createOutputBuilder: status is init when it is a number, init.status
\* when given, otherwise 200 (0 stands for "no status given").  An init
\* object that has a status property holding undefined (NoStatus) is spread
\* over the computed status.
OutputBuilder(type, body, status, headers) ==
    [type    |-> type,
     body    |-> Payload(body),
     status  |-> IF status = 0 THEN 200 ELSE status,
     headers |-> headers]

CtxJson(body, status, headers) == OutputBuilder("json", body, status, headers)

CtxText(body, status, headers) == OutputBuilder("text", body, status, headers)

\* c.form(body): the body maps keys to a string, a File or an array of
\* them.  It is a sequence of <<key, value>> entries in the object's key
\* order; a value is a scalar or an array, with its items.
CtxForm(body, status, headers) == OutputBuilder("form", body, status, headers)

Scalar(v) == [array |-> FALSE, items |-> <<v>>]

List(items) == [array |-> TRUE, items |-> items]

\* ensureResponse's loop over Object.entries(formBody): formData.append of
\* each item of an array value, or of the value.  A FormData is the
\* sequence of its <<name, value>> entries.
RECURSIVE FormDataOf(_)
FormDataOf(entries) ==
    IF entries = <<>> THEN <<>>
    ELSE LET key == entries[1][1]
             value == entries[1][2]
         IN  [i \in 1..Len(value.items) |-> <<key, value.items[i]>>]
             \o FormDataOf(Tail(entries))

\* Context.redirect: headers.set('location', path) on a copy of the init
\* headers; status as for the other builders, 302 by default.
CtxRedirect(path, status, headers) ==
    [type    |-> "redirect",
     body    |-> NullBody,
     status  |-> IF status = 0 THEN 302 ELSE status,
     headers |-> SetHeader(headers, "location", path)]

\* A raw Response returned by a step.
RawResponse(body, status, headers) ==
    [type |-> "response", body |-> RawBody(body), status |-> status, headers |-> headers]

(***************************************************************************)
(* Transformers: a name, stringify and parse.  stringify tags the value    *)
(* with the transformer that encoded it.                                   *)
(***************************************************************************)
jsonTransformer == "json"

\* stringify writes a value as text: what is read back from the text is a
\* plain value (Payload), also when the value written held a Date (Live).
Stringify(transformer, body) == [enc |-> transformer, val |-> body.val]

defaultContentTypes(type) ==
    CASE type = "text" -> "text/plain; charset=utf-8"
      [] type = "json" -> "application/json"
      [] OTHER         -> ""

\* The body ensureResponse hands to the Response constructor.
ResponseBody(result, transformer) ==
    CASE result.type = "json"     -> Stringify(transformer, result.body)
      [] result.type = "form"     -> [enc |-> "formdata", val |-> FormDataOf(result.body.val)]
      [] result.type = "redirect" -> NullBody
      [] OTHER                    -> RawBody(result.body.val)

\* ensureResponse(result, transformer) throws what the Response constructor
\* throws: the outcomes that are possible.
ensureResponseThrows(result, transformer) ==
    IF result.type \in {"none", "response"} THEN {FALSE}
    ELSE ResponseThrows(ResponseBody(result, transformer), result.status)

\* Variant: the kind's default content-type replaces an explicit one.
ensureResponse_DefaultWins(result, transformer) ==
    IF result.type = "none" THEN NewResponse(NullBody, 204, {})
    ELSE IF result.type = "response"
    THEN [status |-> result.status, body |-> result.body, headers |-> result.headers]
    ELSE LET contentType == defaultContentTypes(result.type)
             headers == IF contentType # ""
                        THEN SetHeader(result.headers, "content-type", contentType)
                        ELSE result.headers
         IN  NewResponse(ResponseBody(result, transformer), result.status, headers)

\* ensureResponse(result, transformer)
ensureResponse(result, transformer) ==
    IF result.type = "none" THEN NewResponse(NullBody, 204, {})
    ELSE IF result.type = "response"
    THEN [status |-> result.status, body |-> result.body, headers |-> result.headers]
    ELSE LET contentType == defaultContentTypes(result.type)
             headers == IF contentType # "" /\ ~HasHeader(result.headers, "content-type")
                        THEN SetHeader(result.headers, "content-type", contentType)
                        ELSE result.headers
         IN  IF result.type = "json"
             THEN NewResponse(Stringify(transformer, result.body), result.status, headers)
             ELSE IF result.type = "form"
             THEN NewResponse([enc |-> "formdata", val |-> FormDataOf(result.body.val)],
                              result.status, headers)
             ELSE IF result.type = "redirect"
             THEN NewResponse(NullBody, result.status, headers)
             ELSE NewResponse(RawBody(result.body.val), result.status, headers)

(***************************************************************************)
(* The builders: an app holds the app-level middleware, a route builder    *)
(* extends the list, handle() closes it into a route.                      *)
(***************************************************************************)
\* Paths are sequences of segments: '/' is <<>>, '/a' is <<"a">>.
createApp == [prefix |-> <<>>, middlewares |-> <<>>]

AppUse(app, mw) == [app EXCEPT !.middlewares = Append(@, mw)]

createRouteBuilder(app, method, path) ==
    [prefix |-> app.prefix, path |-> path, method |-> method,
     middlewares |-> app.middlewares]

\* Variant: use() puts the new middleware in front of the inherited ones.
RouteUse_Prepend(rb, mw) == [rb EXCEPT !.middlewares = <<mw>> \o @]

\* RouteBuilder.use: [...this.middlewares, ...toMiddlewareList(middleware)]
RouteUse(rb, mw) == [rb EXCEPT !.middlewares = Append(@, mw)]

\* createInputValidator(schemas): the validator of a set of declared
\* sources, a middleware named after them.
createInputValidator(schemas) ==
    CASE schemas = {"query"}          -> "vQuery"
      [] schemas = {"json", "params"} -> "vJsonParams"

\* The sources a validator was created for.
SchemasOf(fn) ==
    CASE fn = "vQuery"      -> {"query"}
      [] fn = "vJsonParams" -> {"json", "params"}

\* AppBuilder.input: [...this.middlewares, validator]
AppInput(a, schemas) ==
    [a EXCEPT !.middlewares = Append(@, createInputValidator(schemas))]

\* RouteBuilder.input: [...this.middlewares, validator]
RouteInput(rb, schemas) ==
    [rb EXCEPT !.middlewares = Append(@, createInputValidator(schemas))]

\* RouteBuilder.handle: the full path is prefix + path.
Handle(rb, handler) ==
    [method |-> rb.method, path |-> rb.prefix \o rb.path,
     middlewares |-> rb.middlewares, handler |-> handler]

(***************************************************************************)
(* The application under dispatch.  Steps are named functions; what a      *)
(* function does when it is called is its behaviour, a script of           *)
(* operations on the context and on the continuation it was handed.        *)
(*   mA is app-level middleware, mB is route-level middleware of GET /a.   *)
(***************************************************************************)
app == AppUse(createApp, "mA")

routeA == Handle(RouteUse(createRouteBuilder(app, "GET", <<"a">>), "mB"), "hA")

routeB == Handle(createRouteBuilder(app, "ALL", <<"b">>), "hB")

\* An app that validates the query string, and its route POST /v/:id that
\* validates the json body and the path parameters, then runs the
\* middleware mV and the handler hV.
appV == AppInput(createApp, {"query"})

routeV ==
    Handle(RouteUse(RouteInput(createRouteBuilder(appV, "POST", <<"v", ":id">>),
                               {"json", "params"}),
                    "mV"),
           "hV")

\* An app without middleware: /r is registered under ALL and under GET,
\* /o under ALL only, /u/:id, /s and /k/:constructor under GET.
appP == createApp

routeRAll == Handle(createRouteBuilder(appP, "ALL", <<"r">>), "hAll")

routeRGet == Handle(createRouteBuilder(appP, "GET", <<"r">>), "hGet")

routeO == Handle(createRouteBuilder(appP, "ALL", <<"o">>), "hO")

routeU == Handle(createRouteBuilder(appP, "GET", <<"u", ":id">>), "hU")

routeS == Handle(createRouteBuilder(appP, "GET", <<"s">>), "hS")

routeK == Handle(createRouteBuilder(appP, "GET", <<"k", ":constructor">>), "hK")

routeOut == Handle(createRouteBuilder(appP, "GET", <<"out">>), "hOut")

routeForm == Handle(createRouteBuilder(appP, "GET", <<"form">>), "hForm")

\* createRouter([...]): the flat route list handed to createServer / createCaller.
Routes ==
    <<routeA, routeB, routeV, routeRAll, routeRGet, routeO, routeU, routeS, routeK,
      routeOut, routeForm>>

Functions ==
    {"mA", "mB", "hA", "hB", "vQuery", "vJsonParams", "mV", "hV",
     "hAll", "hGet", "hO", "hU", "hS", "hK", "hOut", "m1", "m2", "h1",
     "hForm"}

Op(o, a) == [op |-> o, arg |-> a]

\* The responses a step assigns to c.res.
ResNamed(n) ==
    CASE n = "before" -> NewResponse(RawBody("Middleware response"), 500,
                                     {<<"x-middleware", "before-next">>})
      [] n = "after"  -> NewResponse(RawBody("modified"), 202,
                                     {<<"content-type", "application/json">>,
                                      <<"x-modified", "true">>})

\* What function fn assigns: each step builds responses of its own.
Assigned(fn, n) ==
    [ResNamed(n) EXCEPT !.headers = SetHeader(@, "x-by", fn)]

\* The handler hS answers with one of these statuses.
StatusBehaviours == {"st200", "st299", "st300", "st304", "st399", "st400", "st599"}

StatusOf(n) ==
    CASE n = "st200" -> 200
      [] n = "st299" -> 299
      [] n = "st300" -> 300
      [] n = "st304" -> 304
      [] n = "st399" -> 399
      [] n = "st400" -> 400
      [] n = "st599" -> 599

\* The handler hOut answers with one of these Outputs.
TextType == "text/plain; charset=utf-8"

JsonType == "application/json"

OutputBehaviours ==
    {"oJson", "oJson201h", "oJson404", "oJsonLive", "oJsonAsText", "oJsonUndef",
     "oText", "oText500", "oTextAsJson", "oBody",
     "oRedir", "oRedir201", "oRedir404", "oRedirLoc", "oRedirJson",
     "oRedirText200", "oRedirUndef", "oRaw"}

\* The Outputs a step returns, built with the context's builders.
\* Handlers that return c.form(...): scalars, a File, arrays of no, one,
\* two and three items, strings and Files mixed, with a status.
FormBehaviours ==
    {"fScalars", "fFile", "fArr0", "fArr1", "fArr2", "fArr3", "fMixed", "fScalars404"}

FormNamed(n) ==
    CASE n = "fScalars" -> <<<<"name", Scalar("Alice")>>, <<"age", Scalar("30")>>>>
      [] n = "fFile"    -> <<<<"file", Scalar("File hello.txt")>>>>
      [] n = "fArr0"    -> <<<<"name", Scalar("Alice")>>, <<"tags", List(<<>>)>>>>
      [] n = "fArr1"    -> <<<<"tags", List(<<"a">>)>>>>
      [] n = "fArr2"    -> <<<<"files", List(<<"File hello.txt", "File world.txt">>)>>>>
      [] n = "fArr3"    -> <<<<"tags", List(<<"a", "b", "c">>)>>>>
      [] n = "fMixed"   -> <<<<"string", Scalar("text")>>, <<"file", Scalar("File mixed.txt")>>,
                             <<"mixed", List(<<"text", "File mixed.txt">>)>>>>
      [] n = "fScalars404" -> <<<<"name", Scalar("Alice")>>, <<"age", Scalar("30")>>>>

OutNamed(n) ==
    CASE n = "blocked"  -> CtxJson("blocked", 403, {})
      [] n = "caught"   -> CtxJson("caught", 500, {})
      [] n = "override" -> CtxJson("override", 200, {<<"x-outer", "1">>})
      [] n = "ok"       -> CtxJson("ok", 0, {})
      [] n = "created"  -> CtxJson("created", 201, {})
      [] n = "text"     -> CtxText("hello", 0, {})
      [] n \in StatusBehaviours -> CtxJson("payload", StatusOf(n), {})
      [] n = "oJson"       -> CtxJson("payload", 0, {})
      [] n = "oJson201h"   -> CtxJson("payload", 201, {<<"x-extra", "1">>})
      [] n = "oJson404"    -> CtxJson("payload", 404, {})
      [] n = "oJsonLive"   -> [CtxJson("at", 0, {}) EXCEPT !.body = Live("at")]
      [] n = "oJsonAsText" -> CtxJson("payload", 0, {<<"content-type", TextType>>})
      [] n = "oJsonUndef"  -> CtxJson("payload", NoStatus, {})
      [] n = "oText"       -> CtxText("hello", 0, {})
      [] n = "oText500"    -> CtxText("hello", 500, {})
      [] n = "oTextAsJson" -> CtxText("hello", 0, {<<"content-type", JsonType>>})
      [] n = "oBody"       -> OutputBuilder("body", "bytes", 0, {})
      [] n = "oRedir"      -> CtxRedirect("/x", 0, {})
      [] n = "oRedir201"   -> CtxRedirect("/x", 201, {})
      [] n = "oRedir404"   -> CtxRedirect("/x", 404, {<<"x-extra", "1">>})
      [] n = "oRedirLoc"   -> CtxRedirect("/x", 0, {<<"location", "/other">>})
      [] n = "oRedirJson"  -> CtxRedirect("/x", 0, {<<"content-type", JsonType>>})
      [] n = "oRedirText200" -> CtxRedirect("/x", 200, {<<"content-type", TextType>>})
      [] n = "oRedirUndef" -> CtxRedirect("/x", NoStatus, {})
      [] n = "oRaw"        -> RawResponse("raw", 200, {})
      [] n \in FormBehaviours ->
           CtxForm(FormNamed(n), IF n = "fScalars404" THEN 404 ELSE 0, {})

(***************************************************************************)
(* Behaviours.  Operations:                                                *)
(*   SetRes a    c.res = <response a>                                      *)
(*   WriteVar    c.var.x = <this request>                                  *)
(*   ReadVar     read c.var.x                                              *)
(*   Next        await next()                                              *)
(*   TryNext     try { await next() } catch { return c.json(caught, 500) } *)
(*   Detach      next()   (the promise is dropped, not awaited)            *)
(*   Yield       await <external I/O>                                      *)
(*   Ret a       return <output a>                                         *)
(*   Throw e     throw new Error(e); "?" stands for a message computed at  *)
(*               the throw, any of ErrorValues                             *)
(*   Validate k  await tryValidate(k, <raw value of source k>)             *)
(*   Decide      if (issues.length > 0) return c.json({...}, 400);         *)
(*               otherwise c._input = {...c.input, ...collected}           *)
(*   RetInput    return c.json(c.input)                                    *)
(*   RetMethod   return c.json({ route: <this handler>,                    *)
(*                               method: c.req.method })                   *)
(* A script that runs off its end returns undefined.                       *)
(***************************************************************************)
\* createInputValidator's middleware: the declared sources in the order
\* json, form, query, params (reading a body awaits I/O), then the
\* decision, then await next().
ValidatorScript(schemas) ==
    LET part(k) == IF k \notin schemas THEN <<>>
                   ELSE IF k \in {"json", "form"}
                   THEN <<Op("Yield", ""), Op("Validate", k)>>
                   ELSE <<Op("Validate", k)>>
    IN  part("json") \o part("form") \o part("query") \o part("params")
        \o <<Op("Decide", ""), Op("Next", "")>>

Script(b) ==
    CASE b = "pass"       -> <<Op("WriteVar", ""), Op("Next", "")>>
      [] b = "block"      -> <<Op("Ret", "blocked")>>
      [] b = "silent"     -> <<>>
      [] b = "setBefore"  -> <<Op("SetRes", "before"), Op("Next", "")>>
      [] b = "setAfter"   -> <<Op("Next", ""), Op("SetRes", "after")>>
      [] b = "retAfter"   -> <<Op("Next", ""), Op("Ret", "override")>>
      [] b = "catch"      -> <<Op("TryNext", "caught")>>
      [] b = "throw"      -> <<Op("Throw", "")>>
      [] b = "throwAfter" -> <<Op("Next", ""), Op("Throw", "")>>
      [] b = "detach"     -> <<Op("Detach", "")>>
      [] b = "twice"      -> <<Op("Next", ""), Op("Next", "")>>
      [] b = "json"       -> <<Op("ReadVar", ""), Op("Ret", "ok")>>
      [] b = "none"       -> <<>>
      [] b = "fail"       -> <<Op("Throw", "")>>
      [] b = "async"      -> <<Op("Yield", ""), Op("Ret", "created")>>
      [] b = "text"       -> <<Op("ReadVar", ""), Op("Ret", "text")>>
      [] b = "forward"    -> <<Op("Next", "")>>
      [] b = "input"      -> <<Op("RetInput", "")>>
      [] b = "echo"       -> <<Op("RetMethod", "")>>
      [] b \in StatusBehaviours -> <<Op("Ret", b)>>
      [] b \in OutputBehaviours -> <<Op("Ret", b)>>
      [] b \in FormBehaviours -> <<Op("Ret", b)>>
      [] b = "failAny"    -> <<Op("Throw", "?")>>
      [] b \in {"vQuery", "vJsonParams"} -> ValidatorScript(SchemasOf(b))

MiddlewareBehaviours ==
    {"pass", "block", "silent", "setBefore", "setAfter", "retAfter",
     "catch", "throw", "throwAfter", "detach"}

HandlerBehaviours == {"json", "none", "fail", "async"}

BehavioursOf(fn) ==
    CASE fn = "mA" -> MiddlewareBehaviours
      [] fn = "mB" -> MiddlewareBehaviours \cup {"twice"}
      [] fn = "hA"            -> HandlerBehaviours
      [] fn = "hB"            -> {"text"}
      [] fn \in {"vQuery", "vJsonParams"} -> {fn}
      [] fn \in {"mV", "m1", "m2"} -> {"forward"}
      [] fn = "hV"            -> {"input"}
      [] fn \in {"hAll", "hGet", "hO", "hU", "hK", "h1"} -> {"echo"}
      [] fn = "hS"            -> StatusBehaviours \cup {"none"}
      [] fn = "hOut"          -> OutputBehaviours \cup {"none", "failAny"}
      [] fn = "hForm"         -> FormBehaviours

\* The behaviour of a function that has not been called yet.
Unobserved == "?"

\* A request: method, path (for a caller call: the accumulated segments),
\* headers, and the raw values a validator extracts.  For a caller or client
\* call, params is input.params and init the per-call request-init method
\* ("" when none is given); form and cookie are input.form and input.cookie,
\* initHeaders and initBody the per-call request-init's headers and body,
\* defaults the request-init of the proxy node the call is made on (node,
\* when the model keeps the nodes), built the Request a caller constructs
\* from all these.
NoValue == "<undefined>"

Request(method, path, headers, query, json, params, init) ==
    [method |-> method, path |-> path, headers |-> headers, query |-> query,
     json |-> json, params |-> params, init |-> init, terminal |-> method,
     form |-> NoValue, cookie |-> NoValue, initHeaders |-> {},
     initBody |-> NoValue, defaults |-> [headers |-> {}, body |-> NoValue, method |-> ""],
     built |-> <<>>, node |-> 0]

Req(method, path) == Request(method, path, {}, NoValue, NoValue, {}, "")

\* The requests a client sends: GET /a and GET /b match a route (the
\* second through the ALL fallback), POST /a matches none.
Requests ==
    {Req("GET", <<"a">>), Req("GET", <<"b">>), Req("POST", <<"a">>)}

\* How the routes are served: by a server created with or without
\* options.var, or by a caller.
Dispatchers == {"server", "serverNoVar", "caller"}


(***************************************************************************)
(* State.                                                                  *)
(*   dispatcher  how the routes are served (fixed at construction)         *)
(*   behav       what each function does when called: fixed from its first *)
(*               call on (nothing depends on it before)                    *)
(*   heap        the variables objects: object 0 is the one configured at  *)
(*               construction (options.var), object r is a literal {}      *)
(*               created for request r                                     *)
(*   reqs        per request: the request, its Context (var, res), the     *)
(*               chain's locals (stack, transformer, output) and the       *)
(*               state of its dispatch                                     *)
(*   frames      the activations of invoke(index), with the step each runs *)
(*   stack       the synchronous call stack (frame ids, top last)          *)
(*   microq      the microtask queue: a frame id is a continuation of that *)
(*               invoke or step, -r is the continuation of dispatch r      *)
(*   hist        per request, what was observed: the functions started in  *)
(*               order, the values read from c.var, the value of c.var at  *)
(*               construction, the last write to c.res (by which frame,    *)
(*               as an assignment "set" or a normalised Output "norm", and *)
(*               whether runChain's catch replaced it since), whether a    *)
(*               step touched the context after dispatch returned, and the *)
(*               frame of the step whose returned Output invoke took up    *)
(*               last                                                      *)
(*   nodes       the path-proxy nodes created so far, the root first: the  *)
(*               state each was created with (segments, requestInit), the  *)
(*               node it was obtained from and the property accessed       *)
(*   builds      the builder objects created so far, the middleware arrays *)
(*               they hold by reference, and the routes handle() returned  *)
(***************************************************************************)
VARIABLES dispatcher, behav, heap, reqs, frames, stack, microq, hist, nodes, builds

vars == <<dispatcher, behav, heap, reqs, frames, stack, microq, hist, nodes, builds>>

\* Nothing built: the programs that take their routes from Routes.
NoBuild == [arrays |-> <<>>, builders |-> <<>>, routes |-> <<>>]

\* A request-init: its headers and its body (NoValue: no body property).
RequestInit(headers, body) == [headers |-> headers, body |-> body, method |-> ""]

\* No request-init (undefined).
NoInit == RequestInit({}, NoValue)

\* createClient / createCaller: createNode({ ..., segments: [], requestInit:
\* options.requestInit })
RootNode(requestInit) ==
    [parent |-> 0, prop |-> "", segments |-> <<>>, requestInit |-> requestInit]

Undefined == [enc |-> "undefined", val |-> ""]

NoResult ==
    [shape |-> "none", data |-> Undefined, error |-> Undefined,
     status |-> 0, ok |-> FALSE]

\* An activation of invoke(idx) for request r, called from the next() of
\* frame parent at position at of its script (parent 0: from runChain).
\*   st       run: the step is running (or, below the top of the stack,
\*            waits for its synchronous callee to hand control back);
\*            awaitNext: suspended in `await next()`; io: suspended in an
\*            awaited I/O; resume: the awaited next() settled, continuation
\*            queued; awaitResult: the step settled, invoke's continuation
\*            queued; done: invoke returned
\*   rkind    how the step settled: out (an Output), none (undefined),
\*            throw; pending before
\*   thrown   the value the step's promise (or the awaited next()) rejected
\*            with
\*   pending  how the awaited next() settled: ok, err
\*   collected, issues, validated   a validator's locals: the parsed values
\*            and the issues so far, and the sources validated in order
NewFrame(r, idx, parent, detached, at) ==
    [req |-> r, idx |-> idx, pc |-> 1, st |-> "run", parent |-> parent,
     detached |-> detached, at |-> at, rkind |-> "pending", rout |-> NoOutput,
     thrown |-> "", pending |-> "none", collected |-> {}, issues |-> <<>>, validated |-> <<>>]

NewHist(startVar) ==
    [started |-> <<>>, seen |-> {}, startVar |-> startVar,
     writer |-> [by |-> 0, kind |-> "init", escaped |-> FALSE], late |-> FALSE,
     lastOut |-> 0]

\* The `:name` segments of the route table.
ParamSegments == {":id", ":constructor"}

\* segment.slice(1): the parameter a `:name` segment names.
ParamName(segment) ==
    CASE segment = ":id" -> "id"
      [] segment = ":constructor" -> "constructor"

\* A route path matches a request path segment by segment; a `:name`
\* segment matches any one segment.
PathMatches(pattern, path) ==
    /\ Len(pattern) = Len(path)
    /\ \A i \in 1..Len(pattern) :
          pattern[i] = path[i] \/ pattern[i] \in ParamSegments

\* rou3's findRoute, consumed as a black box: the route registered for
\* method whose path matches; 0 when there is none.
findRoute(routes, method, path) ==
    LET hits == {i \in 1..Len(routes) :
                    routes[i].method = method /\ PathMatches(routes[i].path, path)}
    IN  IF hits = {} THEN 0 ELSE CHOOSE i \in hits : \A j \in hits : i <= j

\* Variant: the ALL route is looked up first.
Match_AllFirst(routes, method, path) ==
    IF findRoute(routes, "ALL", path) # 0
    THEN findRoute(routes, "ALL", path)
    ELSE findRoute(routes, method, path)

\* server.fetch: findRoute(method) ?? findRoute('ALL')
Match(routes, method, path) ==
    IF findRoute(routes, method, path) # 0
    THEN findRoute(routes, method, path)
    ELSE findRoute(routes, "ALL", path)

\* routes.find((r) => r.path === templatePath && r.method === method)
FindByTemplate(routes, method, templatePath) ==
    LET hits == {i \in 1..Len(routes) :
                    routes[i].method = method /\ routes[i].path = templatePath}
    IN  IF hits = {} THEN 0 ELSE CHOOSE i \in hits : \A j \in hits : i <= j

\* Variant: the lookup has no ALL fallback.
findRouteByTemplate_Exact(routes, method, templatePath) ==
    FindByTemplate(routes, method, templatePath)

\* caller: routes.find(exact) ?? routes.find(ALL) ?? null
findRouteByTemplate(routes, method, templatePath) ==
    IF FindByTemplate(routes, method, templatePath) # 0
    THEN FindByTemplate(routes, method, templatePath)
    ELSE FindByTemplate(routes, "ALL", templatePath)

\* The name of a transformer.  "json2" is a transformer configured under
\* the name of the built-in one.
TransformerName(t) == IF t = "json2" THEN "json" ELSE t

\* options.transformers of the server: a server with transformers is
\* configured with superjson and json2.
OptionTransformers ==
    IF dispatcher \in {"serverT", "boundT", "boundTS"}
    THEN <<"superjson", "json2">> ELSE <<>>

\* The clients bound to a server: "bound" and "boundT" are created without
\* a transformer, "boundS" and "boundTS" with superjson; the servers of
\* "boundT" and "boundTS" are configured with transformers.
BoundClients == {"bound", "boundT", "boundS", "boundTS"}

\* createServer: [jsonTransformer, ...(options?.transformers ?? [])]
configuredTransformers == <<jsonTransformer>> \o OptionTransformers

\* req.headers.get(name): null (NoValue) when the header is absent.
HeaderGet(headers, name) ==
    IF \E p \in headers : p[1] = name
    THEN (CHOOSE p \in headers : p[1] = name)[2]
    ELSE NoValue

TRANSFORMER_HEADER == "x-asagi-transformer"

\* Variant: an unlisted name selects no transformer of the list: the last
\* configured one is used.
transformerFromHeader_Last(name, list) ==
    IF name \notin {NoValue, ""} /\ \E i \in 1..Len(list) : TransformerName(list[i]) = name
    THEN list[CHOOSE i \in 1..Len(list) :
                 /\ TransformerName(list[i]) = name
                 /\ \A j \in 1..Len(list) : TransformerName(list[j]) = name => i <= j]
    ELSE list[Len(list)]

\* transformerFromHeader(name, list): the first listed transformer of that
\* name, otherwise the first of the list (a missing header is NoValue).
transformerFromHeader(name, list) ==
    IF name \notin {NoValue, ""} /\ \E i \in 1..Len(list) : TransformerName(list[i]) = name
    THEN list[CHOOSE i \in 1..Len(list) :
                 /\ TransformerName(list[i]) = name
                 /\ \A j \in 1..Len(list) : TransformerName(list[j]) = name => i <= j]
    ELSE IF Len(list) > 0 THEN list[1] ELSE jsonTransformer

\* [...route.middlewares, route.handler]
StackOf(route) == Append(route.middlewares, route.handler)

\* The variables object a dispatch hands to runChain for request r:
\*   server  var: options?.var ?? {}   (the literal is evaluated per request)
\*   caller  var: state.initVar        (options?.var ?? {} evaluated once)
VarOf(r) == IF dispatcher = "serverNoVar" THEN r ELSE 0

Init ==
    /\ dispatcher \in Dispatchers
    /\ behav = [fn \in Functions |-> Unobserved]
    /\ heap = [o \in 0..MaxReq |-> 0]
    /\ reqs = <<>>
    /\ frames = <<>>
    /\ stack = <<>>
    /\ microq = <<>>
    /\ hist = <<>>
    /\ nodes = <<RootNode(NoInit)>>
    /\ builds = NoBuild

(***************************************************************************)
(* The running step.                                                       *)
(***************************************************************************)
Top == stack[Len(stack)]

Cur == frames[Top]

FnOf(f) == reqs[f.req].chain[f.idx]

ScriptOf(f) == Script(behav[FnOf(f)])

CurOp ==
    IF Cur.pc <= Len(ScriptOf(Cur)) THEN ScriptOf(Cur)[Cur.pc] ELSE Op("End", "")

Running == stack # <<>> /\ Cur.st = "run"

Front(s) == SubSeq(s, 1, Len(s) - 1)

\* Control returns down the call stack: a caller that awaits the promise it
\* was handed is suspended too, a caller that dropped it runs on.
RECURSIVE Unwind(_, _)
Unwind(stk, fr) ==
    IF stk = <<>> \/ fr[stk[Len(stk)]].st = "run" THEN stk
    ELSE Unwind(Front(stk), fr)

\* A write to the context of a request whose dispatch has already returned.
Late(r) == reqs[r].st = "done"


\* Function fn is called: its behaviour is what it has always been.
Called(fn) ==
    \E b \in (IF behav[fn] = Unobserved THEN BehavioursOf(fn) ELSE {behav[fn]}) :
        behav' = [behav EXCEPT ![fn] = b]

NoResponse == [status |-> 0, body |-> NullBody, headers |-> {}]

\* Variant: runChain's catch keeps the current response.
ChainResponse_Keep(outcome, res, thrown) == res

\* Variant: the response of the catch carries the caught error's message.
CatchResponse_Leak(thrown) == NewResponse(RawBody(thrown), 500, {})

\* runChain's catch clause binds no error:
\*   catch { context.res = new Response('Internal Server Error', { status: 500 }) }
CatchResponse(thrown) == Res500

\* runChain's return after its try/catch: the catch replaces the current
\* response by the fixed 500 response.
ChainResponse(outcome, res, thrown) ==
    IF outcome = "err" THEN CatchResponse(thrown) ELSE res

\* Variant: a returned Output's headers are merged into the current ones.
Normalized_Merge(result, res, transformer) ==
    IF result.type # "none"
    THEN [ensureResponse(result, transformer) EXCEPT !.headers = @ \cup res.headers]
    ELSE res

\* Variant: a step that returns undefined resets the current response.
Normalized_Reset(result, res, transformer) == ensureResponse(result, transformer)

\* Variant: a returned Output is normalised only while the current response
\* is still the initial one.
Normalized_FirstOnly(result, res, transformer) ==
    IF result.type # "none" /\ res = InitialRes
    THEN ensureResponse(result, transformer) ELSE res

\* invoke, after the step returned: if (result !== undefined)
\*   context.res = ensureResponse(result, transformer)
Normalized(result, res, transformer) ==
    IF result.type # "none" THEN ensureResponse(result, transformer) ELSE res

\* invoke, after the step returned: if (result !== undefined) output = result
OutputAfter(result, output) ==
    IF result.type # "none" THEN result ELSE output

\* Variant: invoke swallows a step's rejection.
InvokeOutcome_Swallow(rkind) == "ok"

\* invoke rejects when the step it awaits rejects, and resolves otherwise.
InvokeOutcome(rkind) == IF rkind = "throw" THEN "err" ELSE "ok"

\* invoke, after the step returned a result: `output = result` has been
\* executed when ensureResponse throws, `context.res = ...` has not.
NormalizeThrows(rkind, result, transformer) ==
    IF rkind = "out" THEN ensureResponseThrows(result, transformer) ELSE {FALSE}

\* next = async () => { await invoke(index + 1) }
NextIndex(index) == index + 1

\* invoke's guard: const current = stack[index]; if (!current) return
HasStep(chain, index) == index <= Len(chain)

\* Variant: a chain without a tagged Output yields a full result too.
CallerResult_AlwaysFull(output) ==
    IF output.type \in {"none", "response"}
    THEN [NoResult EXCEPT !.shape = "full"]
    ELSE LET ok == output.status >= 200 /\ output.status < 300
             isError == output.status >= 400 /\ output.status < 600
         IN  [shape |-> "full",
              data |-> IF ok /\ output.type # "redirect" THEN output.body ELSE Undefined,
              error |-> IF isError /\ output.type # "redirect" THEN output.body ELSE Undefined,
              status |-> output.status, ok |-> ok]

\* The caller's result for a chain's { output, response }.
CallerResult(output) ==
    IF output.type \in {"none", "response"}
    THEN [NoResult EXCEPT !.shape = "res"]
    ELSE LET ok == output.status >= 200 /\ output.status < 300
             isError == output.status >= 400 /\ output.status < 600
         IN  IF output.type = "redirect"
             THEN [shape |-> "full", data |-> Undefined, error |-> Undefined,
                   status |-> output.status, ok |-> ok]
             ELSE [shape |-> "full",
                   data |-> IF ok THEN output.body ELSE Undefined,
                   error |-> IF isError THEN output.body ELSE Undefined,
                   status |-> output.status, ok |-> ok]

NewReq(q, m) ==
    [method |-> q.method, path |-> q.path, route |-> m, chain |-> <<>>,
     req |-> q, input |-> {}, sent |-> <<>>, var |-> 0, res |-> NoResponse, transformer |-> jsonTransformer,
     output |-> NoOutput, st |-> "done", outcome |-> "none", thrown |-> "",
     response |-> NoResponse, result |-> NoResult, error |-> ""]

\* runChain up to its first suspension: new Context(req, params, var, {}),
\* then invoke(0) calls stack[0] synchronously.
StartChainOf(q, m, chain, transformer) ==
    LET r == Len(reqs) + 1
    IN  /\ reqs' = Append(reqs, [NewReq(q, m) EXCEPT
                                    !.chain = chain, !.var = VarOf(r),
                                    !.res = InitialRes,
                                    !.transformer = transformer,
                                    !.st = "awaitChain"])
        /\ frames' = Append(frames, NewFrame(r, 1, 0, FALSE, 0))
        /\ stack' = <<Len(frames) + 1>>
        /\ hist' = Append(hist, [NewHist(heap[VarOf(r)]) EXCEPT
                                    !.started = <<chain[1]>>])
        /\ Called(chain[1])
        /\ UNCHANGED <<dispatcher, nodes, builds, heap, microq>>

StartChain(q, m, transformer) == StartChainOf(q, m, StackOf(Routes[m]), transformer)

\* The host is between jobs: nothing runs and no microtask is queued.  A
\* request arrives, and an awaited I/O completes, as such an event.
Idle == stack = <<>> /\ microq = <<>>

(***************************************************************************)
(* options.basePath.  A pathname "/s1/s2" is the sequence <<s1, s2>>, the  *)
(* base path "/api" the sequence <<"api">>; the servers "serverBase" and   *)
(* "serverBaseF" are created with it.  What the router is handed is a      *)
(* string, modelled by its pieces around "/": "/r" is <<"", "r">>, "/" is  *)
(* <<"", "">>, "-internal/r" is <<"-internal", "r">>.                      *)
(***************************************************************************)
BasePathServers == {"serverBase", "serverBaseF"}

\* const basePath = options?.basePath ?? ''
BasePath == IF dispatcher \in BasePathServers THEN <<"api">> ELSE <<>>

\* The segments that begin with the characters "api", and what follows
\* these characters in them.
AfterApi(segment) ==
    CASE segment = "api"  -> ""
      [] segment = "api-internal" -> "-internal"
      [] OTHER            -> NoValue

\* pathname.startsWith(basePath): a comparison of characters.
StartsWithBase(path) ==
    BasePath = <<>> \/ (path # <<>> /\ AfterApi(path[1]) # NoValue)

\* pathname.slice(basePath.length) || '/', as pieces around "/".
Sliced(path) ==
    IF BasePath = <<>> THEN <<"">> \o path
    ELSE IF AfterApi(path[1]) = "" /\ Len(path) = 1 THEN <<"", "">>
    ELSE <<AfterApi(path[1])>> \o Tail(path)

\* The router's split of the path it is handed (rou3, a dependency): the
\* piece before the first "/" is dropped (as are empty last pieces), or
\* under "serverBaseF", an older release, the empty pieces are.
splitPath(pieces) ==
    IF dispatcher = "serverBaseF" THEN SelectSeq(pieces, LAMBDA x : x # "")
    ELSE IF Len(pieces) > 1 /\ pieces[Len(pieces)] = "" THEN SubSeq(pieces, 2, Len(pieces) - 1)
    ELSE Tail(pieces)

\* createServer(...).fetch(req)
Fetch(q) ==
    /\ dispatcher \in {"server", "serverNoVar", "serverT"} \cup BasePathServers
    /\ Idle
    /\ Len(reqs) < MaxReq
    /\ LET m == IF StartsWithBase(q.path)
                THEN Match(Routes, q.method, splitPath(Sliced(q.path)))
                ELSE 0
       IN  IF m = 0
           THEN /\ reqs' = Append(reqs, [NewReq(q, 0) EXCEPT !.response = Res404])
                /\ hist' = Append(hist, NewHist(0))
                /\ UNCHANGED <<dispatcher, nodes, builds, behav, heap, frames, stack, microq>>
           ELSE StartChain(q, m, transformerFromHeader(
                                   HeaderGet(q.headers, TRANSFORMER_HEADER),
                                   configuredTransformers))

\* input.params of a call that passes no params (or no input at all).
NoParams == {<<NoValue, NoValue>>}

\* The properties every object literal inherits from Object.prototype
\* (toString, valueOf, hasOwnProperty, ... alike), and what reading one
\* yields: a function.
ObjectPrototypeNames == {"constructor"}

InheritedValue == "function Object() { [native code] }"

\* params?.[key]: a property read.  It is undefined (NoValue) when params is
\* undefined, and otherwise the object's own property or the one it
\* inherits.
ParamValue(params, key) ==
    IF params = NoParams THEN NoValue
    ELSE IF \E p \in params : p[1] = key
    THEN (CHOOSE p \in params : p[1] = key)[2]
    ELSE IF key \in ObjectPrototypeNames THEN InheritedValue
    ELSE NoValue

encodeURIComponent(value) ==
    CASE value = "a/b" -> "a%2Fb"
      [] value = InheritedValue ->
            "function%20Object()%20%7B%20%5Bnative%20code%5D%20%7D"
      [] OTHER -> value

\* buildPath: the positions of the `:name` segments for which the read of
\* params yields undefined.
MissingParams(segments, params) ==
    {j \in 1..Len(segments) :
        /\ segments[j] \in ParamSegments
        /\ ParamValue(params, ParamName(segments[j])) = NoValue}

\* buildPath throws at the first such segment, naming its parameter.
MissingParamError(segments, params) ==
    LET j == CHOOSE i \in MissingParams(segments, params) :
                \A k \in MissingParams(segments, params) : i <= k
    IN  "Missing path parameter: " \o ParamName(segments[j])

\* buildPath(segments, params) when it does not throw.
buildPath(segments, params) ==
    [i \in 1..Len(segments) |->
        IF segments[i] \in ParamSegments
        THEN encodeURIComponent(ParamValue(params, ParamName(segments[i])))
        ELSE segments[i]]

\* Variant: the method of the request-init is ignored.
FinalMethod_Get(method, init) == IF method = "ALL" THEN "GET" ELSE method

\* Variant: a method of the request-init replaces the terminal's verb.
FinalMethod_InitFirst(method, init) ==
    IF init # "" THEN init ELSE IF method = "ALL" THEN "GET" ELSE method

\* method === 'ALL' ? (mergedInit.method ?? 'GET') : method
FinalMethod(method, init) ==
    IF method = "ALL" THEN (IF init # "" THEN init ELSE "GET") ELSE method

\* A body given as null.
NullValue == "<null>"

\* Variant: on a key present in both, the default's value is kept.
mergeRequestInit_BaseWins(base, override) ==
    [headers |-> base.headers \cup
                 {h \in override.headers : ~HasHeader(base.headers, h[1])},
     body    |-> IF override.body # NoValue THEN override.body ELSE base.body,
     method  |-> IF override.method # "" THEN override.method ELSE base.method]

\* mergeRequestInit(base, override): the override's headers are set over the
\* base's; { ...base, ...override, headers }.
mergeRequestInit(base, override) ==
    [headers |-> {h \in base.headers : ~HasHeader(override.headers, h[1])}
                 \cup override.headers,
     body    |-> IF override.body # NoValue THEN override.body ELSE base.body,
     method  |-> IF override.method # "" THEN override.method ELSE base.method]

\* buildHeaders(headers, input): input.headers are set over the headers,
\* the serialized input.cookie is appended to the cookie header.
buildHeaders(headers, inputHeaders, cookie) ==
    LET set == {h \in headers : ~HasHeader(inputHeaders, h[1])} \cup inputHeaders
    IN  IF cookie = NoValue THEN set
        ELSE IF HasHeader(set, "cookie")
        THEN SetHeader(set, "cookie", HeaderGet(set, "cookie") \o "; " \o cookie)
        ELSE SetHeader(set, "cookie", cookie)

\* Variant: input.json is encoded also when the request-init has a body.
buildBody_JsonFirst(json, form, headers, requestInit) ==
    IF json # NoValue
    THEN [body    |-> Stringify(jsonTransformer, Payload(json)),
          headers |-> IF HasHeader(headers, "content-type") THEN headers
                      ELSE SetHeader(headers, "content-type", "application/json")]
    ELSE IF requestInit.body \notin {NoValue, NullValue}
    THEN [body |-> RawBody(requestInit.body), headers |-> headers]
    ELSE IF form # NoValue
    THEN [body |-> [enc |-> "form", val |-> form], headers |-> headers]
    ELSE [body |-> NullBody, headers |-> headers]

\* buildBody(input, headers, requestInit): the body, and the headers as the
\* function leaves them.
buildBody(json, form, headers, requestInit) ==
    IF requestInit.body \notin {NoValue, NullValue}
    THEN [body |-> RawBody(requestInit.body), headers |-> headers]
    ELSE IF json # NoValue
    THEN [body    |-> Stringify(jsonTransformer, Payload(json)),
          headers |-> IF HasHeader(headers, "content-type") THEN headers
                      ELSE SetHeader(headers, "content-type", "application/json")]
    ELSE IF form # NoValue
    THEN [body |-> [enc |-> "form", val |-> form], headers |-> headers]
    ELSE [body |-> NullBody, headers |-> headers]

\* The per-call request-init: the second argument of the terminal.
CallInit(q) == [RequestInit(q.initHeaders, q.initBody) EXCEPT !.method = q.init]

\* mergedInit.method ("" when neither request-init has a method).
MergedMethod(q) == mergeRequestInit(q.defaults, CallInit(q)).method

\* Variant: the transformer header is set before input.headers are applied.
BuildRequest_HeaderFirst(q, transformer) ==
    LET mergedInit == mergeRequestInit(q.defaults, CallInit(q))
        first == IF transformer = "" THEN mergedInit.headers
                 ELSE SetHeader(mergedInit.headers, TRANSFORMER_HEADER, transformer)
        headers == buildHeaders(first, q.headers, q.cookie)
        built == buildBody(q.json, q.form, headers, mergedInit)
    IN  [method  |-> FinalMethod(q.method, mergedInit.method),
         path    |-> buildPath(q.path, q.params),
         headers |-> built.headers,
         body    |-> built.body]

\* The request a call builds, up to its dispatch: transformer is the name
\* the client sets as the transformer header ("" for the caller, which sets
\* none).
BuildRequest(q, transformer) ==
    LET mergedInit == mergeRequestInit(q.defaults, CallInit(q))
        given == buildHeaders(mergedInit.headers, q.headers, q.cookie)
        headers == IF transformer = "" THEN given
                   ELSE SetHeader(given, TRANSFORMER_HEADER, transformer)
        built == buildBody(q.json, q.form, headers, mergedInit)
    IN  [method  |-> FinalMethod(q.method, mergedInit.method),
         path    |-> buildPath(q.path, q.params),
         headers |-> built.headers,
         body    |-> built.body]

\* The caller's request function.
Call(q) ==
    /\ dispatcher = "caller"
    /\ Idle
    /\ Len(reqs) < MaxReq
    /\ LET finalMethod == FinalMethod(q.method, MergedMethod(q))
           req == [q EXCEPT !.method = finalMethod,
                            !.built = IF MissingParams(q.path, q.params) # {} THEN <<>>
                                      ELSE <<BuildRequest(q, "")>>]
           m == findRouteByTemplate(Routes, finalMethod, q.path)
       IN  IF MissingParams(q.path, q.params) # {}
           THEN /\ reqs' = Append(reqs, [NewReq(req, 0) EXCEPT
                                            !.error = MissingParamError(q.path, q.params)])
                /\ hist' = Append(hist, NewHist(0))
                /\ UNCHANGED <<dispatcher, nodes, builds, behav, heap, frames, stack, microq>>
           ELSE IF m = 0
           THEN /\ reqs' = Append(reqs, [NewReq(req, 0) EXCEPT !.error = "Route not found"])
                /\ hist' = Append(hist, NewHist(0))
                /\ UNCHANGED <<dispatcher, nodes, builds, behav, heap, frames, stack, microq>>
           ELSE StartChain(req, m, jsonTransformer)

\* Variant: once the current response has been replaced, assignments to
\* c.res are ignored.
Assign_Once(res, new) == IF res = InitialRes THEN new ELSE res

\* Context.res is a plain property: an assignment replaces it.
Assign(res, new) == new

\* c.res = new Response(...)
ExecSetRes ==
    /\ Running
    /\ CurOp.op = "SetRes"
    /\ reqs' = [reqs EXCEPT ![Cur.req].res =
                                Assign(@, Assigned(FnOf(Cur), CurOp.arg))]
    /\ frames' = [frames EXCEPT ![Top].pc = @ + 1]
    /\ hist' = [hist EXCEPT ![Cur.req].writer = [by |-> Top, kind |-> "set", escaped |-> FALSE],
                            ![Cur.req].late = @ \/ Late(Cur.req)]
    /\ UNCHANGED <<dispatcher, nodes, builds, behav, heap, stack, microq>>

\* c.var.x = ...
ExecWriteVar ==
    /\ Running
    /\ CurOp.op = "WriteVar"
    /\ heap' = [heap EXCEPT ![reqs[Cur.req].var] = Cur.req]
    /\ frames' = [frames EXCEPT ![Top].pc = @ + 1]
    /\ hist' = [hist EXCEPT ![Cur.req].late = @ \/ Late(Cur.req)]
    /\ UNCHANGED <<dispatcher, nodes, builds, behav, reqs, stack, microq>>

\* ... = c.var.x
ExecReadVar ==
    /\ Running
    /\ CurOp.op = "ReadVar"
    /\ hist' = [hist EXCEPT ![Cur.req].seen = @ \cup {heap[reqs[Cur.req].var]},
                            ![Cur.req].late = @ \/ Late(Cur.req)]
    /\ frames' = [frames EXCEPT ![Top].pc = @ + 1]
    /\ UNCHANGED <<dispatcher, nodes, builds, behav, heap, reqs, stack, microq>>

\* await next(): next calls invoke(index + 1), which calls the next step
\* synchronously, or returns at once when there is none.
ExecNext ==
    /\ Running
    /\ CurOp.op \in {"Next", "TryNext"}
    /\ LET r == Cur.req
           chain == reqs[r].chain
           index == NextIndex(Cur.idx)
       IN  IF HasStep(chain, index)
           THEN /\ frames' = Append([frames EXCEPT ![Top].st = "awaitNext"],
                                    NewFrame(r, index, Top, FALSE, Cur.pc))
                /\ stack' = Append(stack, Len(frames) + 1)
                /\ hist' = [hist EXCEPT ![r].started = Append(@, chain[index]),
                                        ![r].late = @ \/ Late(r)]
                /\ Called(chain[index])
                /\ UNCHANGED microq
           ELSE /\ frames' = [frames EXCEPT ![Top].st = "resume",
                                            ![Top].pending = "ok"]
                /\ microq' = Append(microq, Top)
                /\ stack' = Unwind(Front(stack), frames')
                /\ UNCHANGED <<hist, behav>>
    /\ UNCHANGED <<dispatcher, nodes, builds, heap, reqs>>

\* next() without await: the step runs on when the callee suspends.
ExecDetach ==
    /\ Running
    /\ CurOp.op = "Detach"
    /\ LET r == Cur.req
           chain == reqs[r].chain
           index == NextIndex(Cur.idx)
       IN  IF HasStep(chain, index)
           THEN /\ frames' = Append([frames EXCEPT ![Top].pc = @ + 1],
                                    NewFrame(r, index, Top, TRUE, Cur.pc))
                /\ stack' = Append(stack, Len(frames) + 1)
                /\ hist' = [hist EXCEPT ![r].started = Append(@, chain[index]),
                                        ![r].late = @ \/ Late(r)]
                /\ Called(chain[index])
           ELSE /\ frames' = [frames EXCEPT ![Top].pc = @ + 1]
                /\ UNCHANGED <<stack, hist, behav>>
    /\ UNCHANGED <<dispatcher, nodes, builds, heap, reqs, microq>>

\* await <external I/O>
ExecYield ==
    /\ Running
    /\ CurOp.op = "Yield"
    /\ frames' = [frames EXCEPT ![Top].st = "io"]
    /\ stack' = Unwind(Front(stack), frames')
    /\ UNCHANGED <<dispatcher, nodes, builds, behav, heap, reqs, microq, hist>>

\* The messages of the errors a step throws, and the error of a Response
\* constructor that rejects its arguments.
ErrorValues == {"", "connect ECONNREFUSED db:5432", "token 8f3a rejected"}

ResponseError == "TypeError"

ThrownBy(op) ==
    IF op.op # "Throw" THEN {""}
    ELSE IF op.arg = "?" THEN ErrorValues ELSE {op.arg}

\* The step returns an Output, returns undefined or throws: its promise
\* settles, and invoke's await of it continues in a microtask.
ExecReturn ==
    /\ Running
    /\ CurOp.op \in {"Ret", "Throw", "End"}
    /\ \E e \in ThrownBy(CurOp) :
         frames' = [frames EXCEPT
                    ![Top].st = "awaitResult",
                    ![Top].thrown = e,
                    ![Top].rkind = CASE CurOp.op = "Ret" -> "out"
                                     [] CurOp.op = "Throw" -> "throw"
                                     [] OTHER -> "none",
                    ![Top].rout = IF CurOp.op = "Ret" THEN OutNamed(CurOp.arg)
                                  ELSE NoOutput]
    /\ microq' = Append(microq, Top)
    /\ stack' = Unwind(Front(stack), frames')
    /\ UNCHANGED <<dispatcher, nodes, builds, behav, heap, reqs, hist>>

\* The awaited I/O completes (a macrotask: the microtask queue is empty).
IoComplete(f) ==
    /\ Idle
    /\ frames[f].st = "io"
    /\ frames' = [frames EXCEPT ![f].st = "run", ![f].pc = @ + 1]
    /\ stack' = <<f>>
    /\ UNCHANGED <<dispatcher, nodes, builds, behav, heap, reqs, microq, hist>>

\* invoke continues after `await current(context, next)`: it records and
\* normalises a result, or rejects; the promise of invoke settles, which
\* schedules whoever awaits it (the calling step, or runChain).
InvokeSettle ==
    /\ stack = <<>>
    /\ microq # <<>>
    /\ Head(microq) > 0
    /\ frames[Head(microq)].st = "awaitResult"
    /\ \E rejected \in NormalizeThrows(frames[Head(microq)].rkind,
                                        frames[Head(microq)].rout,
                                        reqs[frames[Head(microq)].req].transformer) :
       LET f == Head(microq)
           fr == frames[f]
           r == fr.req
           outcome == IF rejected THEN "err" ELSE InvokeOutcome(fr.rkind)
           thrown == IF rejected THEN ResponseError ELSE fr.thrown
           toRoot == fr.parent = 0 /\ ~fr.detached
           toStep == fr.parent # 0 /\ ~fr.detached
       IN  /\ reqs' = [reqs EXCEPT
                          ![r].output = OutputAfter(fr.rout, @),
                          ![r].res = IF rejected THEN @
                                     ELSE Normalized(fr.rout, @, reqs[r].transformer),
                          ![r].st = IF toRoot THEN "settling" ELSE @,
                          ![r].outcome = IF toRoot THEN outcome ELSE @,
                          ![r].thrown = IF toRoot THEN thrown ELSE @]
           /\ frames' = [g \in 1..Len(frames) |->
                           IF g = f THEN [fr EXCEPT !.st = "done"]
                           ELSE IF toStep /\ g = fr.parent
                           THEN [frames[g] EXCEPT !.st = "resume", !.pending = outcome,
                                                  !.thrown = thrown]
                           ELSE frames[g]]
           /\ microq' = IF toRoot THEN Append(Tail(microq), -r)
                        ELSE IF toStep THEN Append(Tail(microq), fr.parent)
                        ELSE Tail(microq)
           /\ hist' = [hist EXCEPT
                          ![r].writer = IF fr.rkind = "out" /\ ~rejected
                                        THEN [by |-> f, kind |-> "norm", escaped |-> FALSE]
                                        ELSE @,
                          ![r].late = @ \/ (fr.rkind = "out" /\ Late(r)),
                          ![r].lastOut = IF fr.rkind = "out" THEN f ELSE @]
    /\ UNCHANGED <<dispatcher, nodes, builds, behav, heap, stack>>

\* The step continues after `await next()`: it runs on, or the rejection is
\* thrown at the await and either caught by the step's try/catch (which
\* returns an Output) or leaves the step.
ResumeStep ==
    /\ stack = <<>>
    /\ microq # <<>>
    /\ Head(microq) > 0
    /\ frames[Head(microq)].st = "resume"
    /\ LET p == Head(microq)
           fr == frames[p]
           op == ScriptOf(fr)[fr.pc]
       IN  IF fr.pending = "ok"
           THEN /\ frames' = [frames EXCEPT ![p].st = "run", ![p].pc = @ + 1,
                                            ![p].pending = "none"]
                /\ stack' = <<p>>
                /\ microq' = Tail(microq)
           ELSE /\ frames' = [frames EXCEPT
                                ![p].st = "awaitResult",
                                ![p].pending = "none",
                                ![p].rkind = IF op.op = "TryNext" THEN "out" ELSE "throw",
                                ![p].thrown = IF op.op = "TryNext" THEN "" ELSE @,
                                ![p].rout = IF op.op = "TryNext" THEN OutNamed(op.arg)
                                            ELSE NoOutput]
                /\ microq' = Append(Tail(microq), p)
                /\ UNCHANGED stack
    /\ UNCHANGED <<dispatcher, nodes, builds, behav, heap, reqs, hist>>

\* runChain continues after `await invoke(0)` (try/catch, then return), and
\* the dispatcher returns: the server the response, the caller its result.
\* The response of a server that a client is bound to resolves the client's
\* `await state.fetch(...)`.
DispatchSettle ==
    /\ stack = <<>>
    /\ microq # <<>>
    /\ Head(microq) < 0
    /\ LET r == -Head(microq)
           response == ChainResponse(reqs[r].outcome, reqs[r].res, reqs[r].thrown)
       IN  /\ reqs' = [reqs EXCEPT
                          ![r].res = response,
                          ![r].response = response,
                          ![r].result = IF dispatcher = "caller"
                                        THEN CallerResult(reqs[r].output) ELSE @,
                          ![r].st = IF dispatcher \in BoundClients THEN "awaitFetch" ELSE "done"]
           /\ hist' = [hist EXCEPT
                          ![r].writer = IF reqs[r].outcome = "err"
                                        THEN [@ EXCEPT !.escaped = TRUE] ELSE @]
    /\ microq' = Tail(microq)
    /\ UNCHANGED <<dispatcher, nodes, builds, behav, heap, frames, stack>>

Next ==
    \/ \E q \in Requests : Fetch(q)
    \/ \E q \in Requests : Call(q)
    \/ ExecSetRes
    \/ ExecWriteVar
    \/ ExecReadVar
    \/ ExecNext
    \/ ExecDetach
    \/ ExecYield
    \/ ExecReturn
    \/ \E f \in 1..Len(frames) : IoComplete(f)
    \/ InvokeSettle
    \/ ResumeStep
    \/ DispatchSettle

Spec == Init /\ [][Next]_vars

(***************************************************************************)
(* The validation pipeline (createInputValidator).                         *)
(*   A schema is a black box: what it answers for a raw value is a table.  *)
(*   An issue is [message, hasPath, path]; hasPath is FALSE for an issue   *)
(*   without a path.  The input bag and a validator's collected values     *)
(*   are sets of <<source, value>> pairs with distinct sources.            *)
(***************************************************************************)
Issue(message, hasPath, path) ==
    [message |-> message, hasPath |-> hasPath, path |-> path]

\* The path parameters rou3 extracts for a matched route.
ExtractParams(pattern, path) ==
    {<<ParamName(pattern[i]), path[i]>> : i \in {j \in 1..Len(pattern) : pattern[j] \in ParamSegments}}

\* c.params: the server passes match.params, the caller input.params.
ParamsOf(r) ==
    IF dispatcher = "caller"
    THEN (IF reqs[r].req.params = NoParams THEN {} ELSE reqs[r].req.params)
    ELSE ExtractParams(Routes[reqs[r].route].path, reqs[r].path)

\* parseJsonBody / parseQuery / c.params: the raw value of a source.  A
\* body that does not parse as json is undefined.
RawValue(k, r) ==
    CASE k = "json"   -> IF reqs[r].req.json = "garbled" THEN NoValue
                         ELSE reqs[r].req.json
      [] k = "query"  -> reqs[r].req.query
      [] k = "params" -> IF \E p \in ParamsOf(r) : p[2] = "7" THEN "good" ELSE "bad"
      [] OTHER        -> NoValue

\* schema['~standard'].validate(value): a value, or issues.
validateValue(k, value) ==
    CASE value = "good" ->
           [issues |-> <<>>, value |-> <<"parsed", k>>]
      [] value = NoValue ->
           [issues |-> <<Issue("Required", FALSE, <<>>)>>, value |-> <<>>]
      [] OTHER ->
           [issues |-> IF k = "json"
                       THEN <<Issue("Expected string", TRUE, <<"name">>),
                              Issue("Expected number", TRUE, <<"age">>)>>
                       ELSE <<Issue("Invalid", TRUE, <<"id">>)>>,
            value |-> <<>>]

\* Variant: the issue keeps the schema's own path.
formatIssues_Unprefixed(issues, key) == issues

\* formatIssues: path: issue.path ? [key, ...issue.path] : [key]
formatIssues(issues, key) ==
    [i \in 1..Len(issues) |->
        Issue(issues[i].message, TRUE,
              IF issues[i].hasPath THEN <<key>> \o issues[i].path ELSE <<key>>)]

\* Variant: only the issues of the last failing source are kept.
PushIssues_Last(issues, formatted) == formatted

\* issues.push(...formatIssues(result.issues, key))
PushIssues(issues, formatted) == issues \o formatted

\* collected[key] = result.value
Collect(collected, key, value) ==
    {p \in collected : p[1] # key} \cup {<<key, value>>}

\* Variant: the new input bag holds the collected values only.
MergeInput_Replace(input, collected) == collected

\* { ...c.input, ...collected }
MergeInput(input, collected) ==
    {p \in input : ~\E n \in collected : n[1] = p[1]} \cup collected

\* Variant: the validation failure is reported with status 422.
InvalidInput_422(issues) ==
    CtxJson([error |-> "Invalid input", issues |-> issues], 422, {})

\* c.json({ error: 'Invalid input', issues }, 400)
InvalidInput(issues) ==
    CtxJson([error |-> "Invalid input", issues |-> issues], 400, {})

\* await tryValidate(key, value)
ExecValidate ==
    /\ Running
    /\ CurOp.op = "Validate"
    /\ LET k == CurOp.arg
           result == validateValue(k, RawValue(k, Cur.req))
       IN  frames' = [frames EXCEPT
                        ![Top].pc = @ + 1,
                        ![Top].validated = Append(@, k),
                        ![Top].issues = IF result.issues # <<>>
                                        THEN PushIssues(@, formatIssues(result.issues, k))
                                        ELSE @,
                        ![Top].collected = IF result.issues # <<>> THEN @
                                           ELSE Collect(@, k, result.value)]
    /\ UNCHANGED <<dispatcher, nodes, builds, behav, heap, reqs, stack, microq, hist>>

\* if (issues.length > 0) return c.json(...); c._input = {...}
ExecDecide ==
    /\ Running
    /\ CurOp.op = "Decide"
    /\ IF Cur.issues # <<>>
       THEN /\ frames' = [frames EXCEPT ![Top].st = "awaitResult",
                                        ![Top].rkind = "out",
                                        ![Top].rout = InvalidInput(Cur.issues)]
            /\ microq' = Append(microq, Top)
            /\ stack' = Unwind(Front(stack), frames')
            /\ UNCHANGED reqs
       ELSE /\ reqs' = [reqs EXCEPT ![Cur.req].input = MergeInput(@, Cur.collected)]
            /\ frames' = [frames EXCEPT ![Top].pc = @ + 1]
            /\ UNCHANGED <<microq, stack>>
    /\ UNCHANGED <<dispatcher, nodes, builds, behav, heap, hist>>

\* return c.json(c.input)
ExecRetInput ==
    /\ Running
    /\ CurOp.op = "RetInput"
    /\ frames' = [frames EXCEPT ![Top].st = "awaitResult",
                                ![Top].rkind = "out",
                                ![Top].rout = CtxJson(reqs[Cur.req].input, 0, {})]
    /\ microq' = Append(microq, Top)
    /\ stack' = Unwind(Front(stack), frames')
    /\ UNCHANGED <<dispatcher, nodes, builds, behav, heap, reqs, hist>>

\* The requests of the validation runs: POST /v/<id> with a query string
\* and a body, sent to the server, and the same as calls of the caller's
\* v[':id'].$post.
ServerValidationRequests ==
    {Request("POST", <<"v", id>>, {}, query, json, {}, "") :
        id \in {"7", "x"}, query \in {"good", "bad"},
        json \in {"good", "bad", "garbled"}}

CallerValidationRequests ==
    {Request("POST", <<"v", ":id">>, {}, query, json, {<<"id", id>>}, "") :
        id \in {"7", "x"}, query \in {"good", "bad"},
        json \in {"good", "bad", "garbled"}}

InitValidation ==
    /\ dispatcher \in {"server", "caller"}
    /\ behav = [fn \in Functions |-> Unobserved]
    /\ heap = [o \in 0..MaxReq |-> 0]
    /\ reqs = <<>>
    /\ frames = <<>>
    /\ stack = <<>>
    /\ microq = <<>>
    /\ hist = <<>>
    /\ nodes = <<RootNode(NoInit)>>
    /\ builds = NoBuild

NextValidation ==
    \/ \E q \in ServerValidationRequests : Fetch(q)
    \/ \E q \in CallerValidationRequests : Call(q)
    \/ ExecValidate
    \/ ExecDecide
    \/ ExecRetInput
    \/ ExecNext
    \/ ExecYield
    \/ ExecReturn
    \/ \E f \in 1..Len(frames) : IoComplete(f)
    \/ InvokeSettle
    \/ ResumeStep
    \/ DispatchSettle

SpecValidation == InitValidation /\ [][NextValidation]_vars


(***************************************************************************)
(* Vocabulary of the properties.                                           *)
(***************************************************************************)
ReqIds == 1..Len(reqs)

FrameIds == 1..Len(frames)

FramesOf(r) == {f \in FrameIds : frames[f].req = r}

Done(r) == reqs[r].st = "done"

Matched(r) == reqs[r].route # 0

IsPrefix(s, t) == Len(s) <= Len(t) /\ SubSeq(t, 1, Len(s)) = s

ProceedOps == {"Next", "TryNext", "Detach"}

ProceedCalls(b) == {i \in 1..Len(Script(b)) : Script(b)[i].op \in ProceedOps}

\* The behaviour calls proceed exactly once on every run: one call in its
\* script, with no return or throw before it.
CallsProceedOnce(b) ==
    /\ b # Unobserved
    /\ Cardinality(ProceedCalls(b)) = 1
    /\ \A i \in ProceedCalls(b) : \A j \in 1..(i - 1) :
          Script(b)[j].op \notin {"Ret", "Throw"}

\* The behaviour never calls proceed.
NeverProceeds(b) == b # Unobserved /\ ProceedCalls(b) = {}

\* The interceptors and the handler as the route declares them: app-level
\* middleware, then route-level middleware, then the handler.
Declared(m) ==
    IF m = 1 THEN <<"mA", "mB", "hA">> ELSE <<"mA", "hB">>

Interceptors == {"mA", "mB"}

\* The started steps of request r that are interceptors.
StartedInterceptors(r) ==
    {hist[r].started[i] : i \in 1..Len(hist[r].started)} \cap Interceptors

(***************************************************************************)
(* C1.  For a request that matches a route, while every interceptor that   *)
(* has been started calls proceed exactly once, the steps started so far   *)
(* are a prefix of the route's declared sequence (app-level interceptors,  *)
(* route-level interceptors, handler), and when dispatch has returned they *)
(* are exactly that sequence: each step once, in order, and no step of     *)
(* another route.                                                          *)
(***************************************************************************)
C1_DeclaredOrder ==
    \A r \in ReqIds :
        (Matched(r) /\ \A fn \in StartedInterceptors(r) : CallsProceedOnce(behav[fn]))
        => /\ IsPrefix(hist[r].started, Declared(reqs[r].route))
           /\ Done(r) => hist[r].started = Declared(reqs[r].route)

C1_Witness ==
    \E r \in ReqIds :
        /\ Done(r)
        /\ reqs[r].route = 1
        /\ \A fn \in Interceptors : CallsProceedOnce(behav[fn])
        /\ hist[r].started = <<"mA", "mB", "hA">>


(***************************************************************************)
(* Further vocabulary.                                                     *)
(***************************************************************************)
\* Frame d is frame c or runs downstream of it (was started, directly or
\* not, by c's call of proceed).
RECURSIVE IsUnder(_, _)
IsUnder(d, c) ==
    \/ d = c
    \/ frames[d].parent # 0 /\ IsUnder(frames[d].parent, c)

\* Every call of proceed made so far for request r was awaited.
Awaited(r) == \A g \in FramesOf(r) : ~frames[g].detached

\* The step of frame f has returned or thrown.
Returned(f) == frames[f].rkind # "pending"

\* An exception left the first step, i.e. escaped the whole chain.
RootThrew(r) ==
    \E f \in FramesOf(r) : frames[f].parent = 0 /\ frames[f].rkind = "throw"

\* The normalized response of the Output that frame f returned.
NormalizedOutputOf(f) ==
    ensureResponse(frames[f].rout, reqs[frames[f].req].transformer)

\* The last write to the current response of request r was the
\* normalisation of the Output returned by frame f.
LastWriteIsOutputOf(r, f) ==
    /\ hist[r].writer.by = f
    /\ hist[r].writer.kind = "norm"
    /\ ~hist[r].writer.escaped

(***************************************************************************)
(* C2 as stated.  When an interceptor that never calls proceed has         *)
(* returned, no later step of the request has been started, and when it    *)
(* returned an Output the response of the completed dispatch is that       *)
(* Output's normalized response (read for the requests in which every      *)
(* call of proceed was awaited).                                           *)
(***************************************************************************)
C2_AsStated ==
    \A f \in FrameIds :
        LET r == frames[f].req
        IN  (/\ FnOf(frames[f]) \in Interceptors
             /\ NeverProceeds(behav[FnOf(frames[f])])
             /\ Awaited(r))
            => /\ \A g \in FramesOf(r) : frames[g].idx <= frames[f].idx
               /\ (frames[f].rkind = "out" /\ Done(r))
                  => reqs[r].response = NormalizedOutputOf(f)

(***************************************************************************)
(* C2, amended.  When a step never calls proceed, no later step of the     *)
(* request is ever started.  When it returned an Output and that Output's  *)
(* normalisation is the last write to the current response, the current    *)
(* response is the Output's normalized response, and it is the response    *)
(* of the dispatch that completes on it.                                   *)
(***************************************************************************)
C2_ShortCircuit ==
    \A f \in FrameIds :
        LET r == frames[f].req
        IN  NeverProceeds(behav[FnOf(frames[f])])
            => /\ \A g \in FramesOf(r) : frames[g].idx <= frames[f].idx
               /\ (frames[f].rkind = "out" /\ LastWriteIsOutputOf(r, f))
                  => /\ reqs[r].res = NormalizedOutputOf(f)
                     /\ (Done(r) /\ ~hist[r].late)
                        => reqs[r].response = NormalizedOutputOf(f)

C2_Witness ==
    \E f \in FrameIds :
        LET r == frames[f].req
        IN  /\ FnOf(frames[f]) = "mB" /\ behav["mB"] = "block"
            /\ behav["mA"] = "setBefore"
            /\ Done(r) /\ LastWriteIsOutputOf(r, f)
            /\ hist[r].started = <<"mA", "mB">>
            /\ reqs[r].response = ensureResponse(OutNamed("blocked"), jsonTransformer)

(***************************************************************************)
(* C3 as stated.  Once a step has continued past an awaited proceed(),     *)
(* every step started downstream of that call has completed and its        *)
(* Output, if any, has been normalized; the response the step then reads   *)
(* is the downstream result.                                               *)
(***************************************************************************)
C3_ProceedAwaitsDownstream ==
    \A c \in FrameIds :
        LET p == frames[c].parent
        IN  (p # 0 /\ ~frames[c].detached /\ frames[p].pc > frames[c].at)
            => \A d \in FrameIds : IsUnder(d, c) => frames[d].st = "done"

(***************************************************************************)
(* C4.  When an exception escapes the whole chain, the dispatch completes  *)
(* with the fixed 500 response, whatever the current response was, and     *)
(* does not reject.                                                        *)
(***************************************************************************)
C4_EscapedException ==
    \A r \in ReqIds :
        (Done(r) /\ Matched(r) /\ RootThrew(r))
        => /\ reqs[r].response = Res500
           /\ reqs[r].response.status = 500
           /\ reqs[r].response.body = RawBody("Internal Server Error")
           /\ reqs[r].error = ""
           /\ dispatcher = "caller" => reqs[r].result.shape # "none"

C4_Witness ==
    \E r \in ReqIds :
        /\ Done(r) /\ RootThrew(r)
        /\ behav["mA"] = "setBefore" /\ behav["mB"] = "throw"
        /\ reqs[r].response = Res500


(***************************************************************************)
(* Vocabulary of C5..C10.                                                  *)
(***************************************************************************)
\* Frame f caught the exception thrown at its awaited proceed() and
\* returned its own Output from the catch.
Caught(f) ==
    /\ frames[f].rkind = "out"
    /\ frames[f].pc <= Len(ScriptOf(frames[f]))
    /\ ScriptOf(frames[f])[frames[f].pc].op = "TryNext"

\* The positions of the assignments to c.res that frame f has executed.
AssignmentsDone(f) ==
    {i \in 1..Len(ScriptOf(frames[f])) :
        ScriptOf(frames[f])[i].op = "SetRes" /\ frames[f].pc > i}

\* The response frame f assigned last.
AssignedBy(f) ==
    LET i == CHOOSE i \in AssignmentsDone(f) : \A j \in AssignmentsDone(f) : j <= i
    IN  Assigned(FnOf(frames[f]), ScriptOf(frames[f])[i].arg)

\* Frame f has assigned c.res after a call of proceed.
AssignedAfterProceed(f) ==
    \E j \in AssignmentsDone(f) : \E i \in 1..(j - 1) :
        ScriptOf(frames[f])[i].op \in ProceedOps

\* What the history of writes says the current response of r is.
ExpectedRes(r) ==
    LET w == hist[r].writer
    IN  IF w.escaped THEN Res500
        ELSE CASE w.kind = "init" -> InitialRes
               [] w.kind = "set"  -> AssignedBy(w.by)
               [] w.kind = "norm" -> NormalizedOutputOf(w.by)

(***************************************************************************)
(* C5 as stated.  When a step has caught the exception of a downstream     *)
(* step and returned its own Output, the response of the completed         *)
(* dispatch is that Output's normalized response (read for the requests    *)
(* in which every call of proceed was awaited).                            *)
(***************************************************************************)
C5_AsStated ==
    \A f \in FrameIds :
        LET r == frames[f].req
        IN  (Caught(f) /\ Done(r) /\ Awaited(r))
            => reqs[r].response = NormalizedOutputOf(f)

(***************************************************************************)
(* C5, amended.  An exception thrown by a step is delivered to the step    *)
(* that awaits the proceed() call which started it: a step that wraps the  *)
(* call in try/catch returns its catch's Output, any other step is left by *)
(* the exception.  A step that throws without having called proceed leaves *)
(* all later steps unstarted.  The catching step's Output is normalized    *)
(* as a returned Output; when that is the last write to the current        *)
(* response it is the response of the dispatch that completes on it, not   *)
(* the fixed 500 response, and a catch in the first step keeps the         *)
(* exception from escaping the chain.                                      *)
(***************************************************************************)
C5_CatchSubstitutes ==
    /\ \A c \in FrameIds :
          LET p == frames[c].parent
          IN  (/\ p # 0 /\ ~frames[c].detached
               /\ frames[c].rkind = "throw" /\ frames[c].st = "done"
               /\ frames[p].st # "resume")
              => LET op == ScriptOf(frames[p])[frames[c].at]
                 IN  /\ frames[p].pc = frames[c].at
                     /\ op.op = "TryNext"
                        => /\ frames[p].rkind = "out"
                           /\ frames[p].rout = OutNamed(op.arg)
                     /\ op.op = "Next" => frames[p].rkind = "throw"
    /\ \A f \in FrameIds :
          LET r == frames[f].req
          IN  /\ (frames[f].rkind = "throw" /\ NeverProceeds(behav[FnOf(frames[f])]))
                 => \A g \in FramesOf(r) : frames[g].idx <= frames[f].idx
              /\ (Caught(f) /\ LastWriteIsOutputOf(r, f))
                 => /\ reqs[r].res = NormalizedOutputOf(f)
                    /\ (Done(r) /\ ~hist[r].late)
                       => /\ reqs[r].response = NormalizedOutputOf(f)
                          /\ reqs[r].response # Res500
              /\ (Caught(f) /\ frames[f].parent = 0 /\ Done(r) /\ ~hist[r].late)
                 => /\ ~hist[r].writer.escaped
                    /\ reqs[r].error = ""

C5_Witness ==
    \E f \in FrameIds :
        LET r == frames[f].req
        IN  /\ Caught(f) /\ FnOf(frames[f]) = "mA" /\ behav["mB"] = "throw"
            /\ Done(r) /\ hist[r].started = <<"mA", "mB">>
            /\ reqs[r].response = ensureResponse(OutNamed("caught"), jsonTransformer)

\* The step of frame f is in the middle of its body: executing, or
\* suspended at an await other than proceed (a step inside its own
\* synchronous call of proceed is not counted).
Active(f) ==
    \/ frames[f].st = "io"
    \/ frames[f].st = "run" /\ stack # <<>> /\ Top = f

\* Frame p has just continued after its awaited proceed().
JustResumed(p) ==
    /\ stack # <<>> /\ Top = p
    /\ frames[p].st = "run" /\ frames[p].pc > 1
    /\ ScriptOf(frames[p])[frames[p].pc - 1].op \in {"Next", "TryNext"}

\* The steps downstream of frame p that returned an Output, now normalized.
LaterOutputs(p) ==
    {d \in FrameIds : d # p /\ IsUnder(d, p)
                        /\ frames[d].rkind = "out" /\ frames[d].st = "done"}

(***************************************************************************)
(* C6 as stated.  Every request starts from the configured initial         *)
(* variables, and a step reads from c.var only the initial value or what   *)
(* a step of its own request wrote.                                        *)
(***************************************************************************)
C6_Isolation ==
    \A r \in ReqIds :
        /\ hist[r].startVar = 0
        /\ hist[r].seen \subseteq {0, r}

(***************************************************************************)
(* C7 as stated.  At most one step of a request is active at a time, the   *)
(* dispatch returns only when every step it started has completed, and no  *)
(* step touches the context after the dispatch has returned.               *)
(***************************************************************************)
C7_Sequential ==
    \A r \in ReqIds :
        /\ Cardinality({f \in FramesOf(r) : Active(f)}) <= 1
        /\ Done(r) => \A f \in FramesOf(r) : frames[f].st = "done"
        /\ ~hist[r].late


(***************************************************************************)
(* C8 as stated.  When a step that assigned c.res before proceed continues *)
(* after it and a later step has returned an Output, the current response  *)
(* is the normalized Output of a later step.                               *)
(***************************************************************************)
C8_AsStated ==
    \A p \in FrameIds :
        (/\ JustResumed(p) /\ AssignmentsDone(p) # {}
         /\ LaterOutputs(p) # {} /\ Awaited(frames[p].req))
        => \E d \in LaterOutputs(p) :
              reqs[frames[p].req].res = NormalizedOutputOf(d)

(***************************************************************************)
(* C8, amended.  When a step that assigned c.res before proceed continues  *)
(* after it and a later step has returned an Output, the current response  *)
(* is what a later step wrote last: the normalized Output of the later     *)
(* step that returned last, or the response a later step assigned after    *)
(* that.  Nothing of the response assigned before proceed remains.         *)
(***************************************************************************)
C8_OutputReplaces ==
    \A p \in FrameIds :
        LET r == frames[p].req
            w == hist[r].writer
        IN  (JustResumed(p) /\ AssignmentsDone(p) # {} /\ LaterOutputs(p) # {})
            => /\ w.by # p /\ w.by # 0 /\ IsUnder(w.by, p)
               /\ w.kind = "norm" => reqs[r].res = NormalizedOutputOf(w.by)
               /\ w.kind = "set" => reqs[r].res = AssignedBy(w.by)
               /\ reqs[r].res # AssignedBy(p)
               /\ ~HasHeader(reqs[r].res.headers, "x-middleware")
               /\ reqs[r].res.body # AssignedBy(p).body

C8_Witness ==
    \E p \in FrameIds :
        LET r == frames[p].req
        IN  /\ JustResumed(p) /\ FnOf(frames[p]) = "mA" /\ behav["mA"] = "setBefore"
            /\ behav["mB"] = "pass" /\ behav["hA"] = "json"
            /\ reqs[r].res = ensureResponse(OutNamed("ok"), jsonTransformer)
            /\ reqs[r].res.headers = {<<"content-type", "application/json">>}

(***************************************************************************)
(* C9.  When invoke continues after a step that returned no value, the     *)
(* current response is left as it was; the current response is always      *)
(* what the last assignment, returned Output or catch made it; and when    *)
(* every step of a completed dispatch returned no value and none assigned  *)
(* c.res, the response is the initial empty response with status 204.      *)
(***************************************************************************)
C9_NothingReturned ==
    /\ [][\A f \in FrameIds :
            (/\ stack = <<>> /\ microq # <<>> /\ Head(microq) = f
             /\ frames[f].st = "awaitResult" /\ frames[f].rkind = "none")
            => reqs'[frames[f].req].res = reqs[frames[f].req].res]_vars
    /\ [](\A r \in ReqIds :
            Matched(r)
            => /\ reqs[r].res = ExpectedRes(r)
               /\ (/\ Done(r)
                   /\ \A f \in FramesOf(r) :
                         frames[f].rkind = "none" /\ AssignmentsDone(f) = {})
                  => /\ reqs[r].response = InitialRes
                     /\ reqs[r].response.status = 204
                     /\ reqs[r].response.body = NullBody)

C9_Witness ==
    \E r \in ReqIds :
        /\ Done(r) /\ hist[r].started = <<"mA", "mB", "hA">>
        /\ behav["mA"] = "pass" /\ behav["mB"] = "pass" /\ behav["hA"] = "none"
        /\ \A f \in FramesOf(r) : frames[f].st = "done" /\ frames[f].rkind = "none"
        /\ reqs[r].response = InitialRes

(***************************************************************************)
(* C10 as stated.  When the last write to the current response of a        *)
(* completed dispatch is an assignment a step made after proceed (no       *)
(* Output was returned after it), the response is the assigned one (read   *)
(* for the requests in which every call of proceed was awaited).           *)
(***************************************************************************)
C10_AsStated ==
    \A r \in ReqIds :
        LET w == hist[r].writer
        IN  (/\ Done(r) /\ Awaited(r) /\ w.kind = "set"
             /\ AssignedAfterProceed(w.by) /\ frames[w.by].rkind = "none")
            => reqs[r].response = AssignedBy(w.by)

(***************************************************************************)
(* C10, amended.  When the last write to the current response before the   *)
(* dispatch returns is an assignment a step made after proceed, and no     *)
(* exception escapes the chain afterwards, the response is the assigned    *)
(* one.                                                                    *)
(***************************************************************************)
C10_LastAssignment ==
    \A r \in ReqIds :
        LET w == hist[r].writer
        IN  (/\ Done(r) /\ ~hist[r].late /\ w.kind = "set" /\ ~w.escaped
             /\ AssignedAfterProceed(w.by))
            => reqs[r].response = AssignedBy(w.by)

C10_Witness ==
    \E r \in ReqIds :
        LET w == hist[r].writer
        IN  /\ Done(r) /\ ~hist[r].late
            /\ behav["mA"] = "setAfter" /\ behav["mB"] = "setAfter" /\ behav["hA"] = "json"
            /\ w.kind = "set" /\ FnOf(frames[w.by]) = "mA"
            /\ reqs[r].response = Assigned("mA", "after")
            /\ reqs[r].response # Assigned("mB", "after")


(***************************************************************************)
(* Vocabulary of the validation properties.                                *)
(***************************************************************************)
Validators == {"vQuery", "vJsonParams"}

IsValidator(f) == FnOf(frames[f]) \in Validators

\* The declared sources of a validator in the order it validates them.
DeclaredSources(fn) ==
    SelectSeq(<<"json", "form", "query", "params">>, LAMBDA k : k \in SchemasOf(fn))

\* The validator of frame f is past its decision: it returned, or merged
\* its values and went on.
Decided(f) ==
    \/ Returned(f)
    \/ frames[f].pc >= Len(ScriptOf(frames[f]))

\* The issues of source k for request r, as the validator reports them.
ReportedIssues(k, r) ==
    formatIssues(validateValue(k, RawValue(k, r)).issues, k)

RECURSIVE AllIssues(_, _)
AllIssues(sources, r) ==
    IF sources = <<>> THEN <<>>
    ELSE ReportedIssues(Head(sources), r) \o AllIssues(Tail(sources), r)

\* The parsed values merged by the validators that ran before frame f.
MergedBefore(f) ==
    UNION {frames[g].collected :
              g \in {h \in FramesOf(frames[f].req) :
                        /\ frames[h].idx < frames[f].idx
                        /\ IsValidator(h)}}

(***************************************************************************)
(* C11.  A validator that has found an issue never throws and never goes   *)
(* past its decision: no later step of the request is started, and what    *)
(* it returns is a json Output with status 400 and body                    *)
(* {error: "Invalid input", issues}.                                       *)
(***************************************************************************)
C11_InvalidInput ==
    \A f \in FrameIds :
        LET r == frames[f].req
        IN  (IsValidator(f) /\ frames[f].issues # <<>>)
            => /\ frames[f].rkind # "throw"
               /\ frames[f].pc < Len(ScriptOf(frames[f]))
               /\ \A g \in FramesOf(r) : frames[g].idx <= frames[f].idx
               /\ Returned(f)
                  => /\ frames[f].rout.type = "json"
                     /\ frames[f].rout.status = 400
                     /\ frames[f].rout.body.val =
                           [error |-> "Invalid input", issues |-> frames[f].issues]
               /\ Done(r) => reqs[r].response.status = 400

C11_Witness ==
    \E f \in FrameIds :
        LET r == frames[f].req
        IN  /\ FnOf(frames[f]) = "vJsonParams" /\ frames[f].issues # <<>>
            /\ Done(r) /\ hist[r].started = <<"vQuery", "vJsonParams">>
            /\ reqs[r].response.status = 400
            /\ reqs[r].response.body.val.error = "Invalid input"

(***************************************************************************)
(* C12.  A validator that has decided has validated every declared source, *)
(* in order, also a body that could not be parsed; when it failed, its     *)
(* issues are the issues of all failing sources together and the input bag *)
(* is what the earlier validators had merged.                              *)
(***************************************************************************)
C12_AllSourcesValidated ==
    \A f \in FrameIds :
        LET r == frames[f].req
            fn == FnOf(frames[f])
        IN  (IsValidator(f) /\ Decided(f))
            => /\ frames[f].validated = DeclaredSources(fn)
               /\ frames[f].issues = AllIssues(DeclaredSources(fn), r)
               /\ frames[f].issues # <<>>
                  => /\ reqs[r].input = MergedBefore(f)
                     /\ \A p \in frames[f].collected :
                           ~\E q \in reqs[r].input : q[1] = p[1]

C12_Witness ==
    /\ \E f \in FrameIds :
          LET r == frames[f].req
          IN  /\ FnOf(frames[f]) = "vJsonParams" /\ Returned(f)
              /\ reqs[r].req.json = "garbled"
              /\ frames[f].issues = <<Issue("Required", TRUE, <<"json">>),
                                      Issue("Invalid", TRUE, <<"params", "id">>)>>
              /\ reqs[r].input = {<<"query", <<"parsed", "query">>>>}
    /\ \E f \in FrameIds :
          /\ FnOf(frames[f]) = "vJsonParams" /\ Returned(f)
          /\ frames[f].issues # <<>> /\ frames[f].collected # {}

(***************************************************************************)
(* C13.  A validator that found no issue merges its parsed values into the *)
(* input bag, keeping what earlier validators merged, and calls proceed:   *)
(* the next step is started, and the handler behind the app-level {query}  *)
(* validator and the route-level {json, params} validator sees every       *)
(* parsed value.                                                           *)
(***************************************************************************)
C13_MergeKeeps ==
    \A f \in FrameIds :
        LET r == frames[f].req
        IN  /\ (IsValidator(f) /\ Decided(f) /\ frames[f].issues = <<>>)
               => /\ frames[f].collected \subseteq reqs[r].input
                  /\ MergedBefore(f) \subseteq reqs[r].input
                  /\ Returned(f)
                     => /\ frames[f].rkind = "none"
                        /\ \E g \in FramesOf(r) :
                              frames[g].parent = f /\ frames[g].idx = frames[f].idx + 1
            /\ (FnOf(frames[f]) = "hV" /\ Returned(f))
               => frames[f].rout.body.val =
                     {<<"query", <<"parsed", "query">>>>,
                      <<"json", <<"parsed", "json">>>>,
                      <<"params", <<"parsed", "params">>>>}

C13_Witness ==
    \E r \in ReqIds :
        /\ Done(r) /\ hist[r].started = <<"vQuery", "vJsonParams", "mV", "hV">>
        /\ reqs[r].response.status = 200
        /\ {p[1] : p \in reqs[r].response.body.val} = {"query", "json", "params"}

ExecRetMethod ==
    /\ Running
    /\ CurOp.op = "RetMethod"
    /\ frames' = [frames EXCEPT
                    ![Top].st = "awaitResult",
                    ![Top].rkind = "out",
                    ![Top].rout = CtxJson(<<FnOf(Cur), reqs[Cur.req].method>>, 0, {})]
    /\ microq' = Append(microq, Top)
    /\ stack' = Unwind(Front(stack), frames')
    /\ UNCHANGED <<dispatcher, nodes, builds, behav, heap, reqs, hist>>

\* The values of the x-asagi-transformer header a client may send: none,
\* empty, a configured name, the built-in name, an unregistered name.
TransformerHeaders ==
    {{}} \cup {{<<TRANSFORMER_HEADER, v>>} : v \in {"", "superjson", "json", "nope"}}

ServerDispatchRequests ==
    {Request("GET", path, h, NoValue, NoValue, {}, "") :
        path \in {<<"r">>, <<"s">>}, h \in TransformerHeaders}
    \cup {Req(method, path) :
            method \in {"GET", "POST"},
            path \in {<<"r">>, <<"o">>, <<"u", "5">>, <<"zz">>}}

InitServer ==
    /\ dispatcher \in {"server", "serverT"}
    /\ behav = [fn \in Functions |-> Unobserved]
    /\ heap = [o \in 0..MaxReq |-> 0]
    /\ reqs = <<>>
    /\ frames = <<>>
    /\ stack = <<>>
    /\ microq = <<>>
    /\ hist = <<>>
    /\ nodes = <<RootNode(NoInit)>>
    /\ builds = NoBuild

NextServer ==
    \/ \E q \in ServerDispatchRequests : Fetch(q)
    \/ ExecRetMethod
    \/ ExecReturn
    \/ InvokeSettle
    \/ DispatchSettle

SpecServer == InitServer /\ [][NextServer]_vars


(***************************************************************************)
(* The client: the request is built and handed to the transport function   *)
(* (options.fetch); the result is derived from the Response the transport  *)
(* resolves with.  The transport is a stand-in that answers any request    *)
(* with any of TransportResponses.                                         *)
(***************************************************************************)
\* createClient: transformer: options.transformer ?? jsonTransformer
ClientTransformer ==
    IF dispatcher \in {"boundS", "boundTS"} THEN "superjson" ELSE jsonTransformer

\* transformer.parse(text): the value a text encoded by that transformer
\* stands for; any other text (the empty one too) makes JSON.parse throw.
ParseThrows(transformer, body) == body.enc # transformer

Parse(transformer, body) == Payload(body.val)

ContentTypeOf(response) ==
    IF HasHeader(response.headers, "content-type")
    THEN HeaderGet(response.headers, "content-type")
    ELSE ""

IsJsonType(contentType) == contentType = "application/json"

IsTextType(contentType) ==
    contentType \in {"text/plain; charset=utf-8", "text/plain;charset=UTF-8"}

\* response.text(): the body as a string.  The text of a body written by a
\* transformer is not the value the transformer wrote.
TextOf(body) ==
    CASE body.enc = "raw"  -> Payload(body.val)
      [] body.enc = "none" -> Payload("")
      [] OTHER             -> [enc |-> body.enc \o "-text", val |-> body.val]

IsFormType(contentType) == contentType = MultipartType

\* new Set(formData.keys()): the names in the order of their first entry.
RECURSIVE FormKeys(_)
FormKeys(formData) ==
    IF formData = <<>> THEN <<>>
    ELSE <<formData[1][1]>>
         \o FormKeys(SelectSeq(Tail(formData), LAMBDA e : e[1] # formData[1][1]))

\* formData.getAll(key)
GetAll(formData, key) ==
    LET entries == SelectSeq(formData, LAMBDA e : e[1] = key)
    IN  [i \in 1..Len(entries) |-> entries[i][2]]

\* parseFormData(formData)
parseFormData(formData) ==
    LET keys == FormKeys(formData)
    IN  [k \in 1..Len(keys) |->
           LET values == GetAll(formData, keys[k])
           IN  <<keys[k], IF Len(values) = 1 THEN Scalar(values[1]) ELSE List(values)>>]

\* response.formData() rejects for a body that is not form data.
FormDataThrows(body) == body.enc # "formdata"

\* parseBody(response, transformer)
parseBody(response, transformer) ==
    IF IsJsonType(ContentTypeOf(response)) THEN Parse(transformer, response.body)
    ELSE IF IsTextType(ContentTypeOf(response)) THEN TextOf(response.body)
    ELSE IF IsFormType(ContentTypeOf(response)) THEN Payload(parseFormData(response.body.val))
    ELSE Undefined

\* parseBody rejects: transformer.parse or response.formData() throws.
parseBodyThrows(response, transformer) ==
    IF IsJsonType(ContentTypeOf(response)) THEN ParseThrows(transformer, response.body)
    ELSE IF IsTextType(ContentTypeOf(response)) THEN FALSE
    ELSE IF IsFormType(ContentTypeOf(response)) THEN FormDataThrows(response.body)
    ELSE FALSE

\* Variant: every status from 300 on counts as an error.
ClientResult_ErrorFrom300(response, transformer) ==
    LET parsedBody == parseBody(response, transformer)
        ok == response.status >= 200 /\ response.status < 300
        isError == response.status >= 300 /\ response.status < 600
    IN  [shape |-> "full",
         data |-> IF ok THEN parsedBody ELSE Undefined,
         error |-> IF isError THEN parsedBody ELSE Undefined,
         status |-> response.status, ok |-> ok]

\* The client's result: { data, error, status, ok, res }.
ClientResult(response, transformer) ==
    LET parsedBody == parseBody(response, transformer)
        ok == response.status >= 200 /\ response.status < 300
        isError == response.status >= 400 /\ response.status < 600
    IN  [shape |-> "full",
         data |-> IF ok THEN parsedBody ELSE Undefined,
         error |-> IF isError THEN parsedBody ELSE Undefined,
         status |-> response.status, ok |-> ok]

\* The client's request function up to `await state.fetch(...)`.
ClientCall(q) ==
    /\ dispatcher = "client"
    /\ Idle
    /\ Len(reqs) < MaxReq
    /\ LET finalMethod == FinalMethod(q.method, MergedMethod(q))
           req == [q EXCEPT !.method = finalMethod]
       IN  IF MissingParams(q.path, q.params) # {}
           THEN reqs' = Append(reqs, [NewReq(req, 0) EXCEPT
                                        !.error = MissingParamError(q.path, q.params)])
           ELSE reqs' = Append(reqs, [NewReq(req, 0) EXCEPT
                            !.st = "awaitFetch",
                            !.transformer = ClientTransformer,
                            !.sent = <<BuildRequest(q, TransformerName(ClientTransformer))>>])
    /\ hist' = Append(hist, NewHist(0))
    /\ UNCHANGED <<dispatcher, nodes, builds, behav, heap, frames, stack, microq>>

JsonResponse(status) ==
    NewResponse(Stringify(jsonTransformer, Payload("payload")), status,
                {<<"content-type", "application/json">>})

\* What the transport resolves with: json bodies over the status ranges, a
\* text and a binary body, and bodiless 304 responses with and without a
\* json content-type.
TransportResponses ==
    {JsonResponse(status) : status \in {200, 299, 300, 399, 400, 599}}
    \cup {NewResponse(RawBody("hello"), 200, {}),
          NewResponse(RawBody("bytes"), 404, {<<"content-type", "application/octet-stream">>}),
          NewResponse(NullBody, 304, {}),
          NewResponse(NullBody, 304, {<<"content-type", "application/json">>})}

\* The transport resolves: the rest of the client's request function.
ClientSettle(r, response) ==
    /\ Idle
    /\ r \in 1..Len(reqs)
    /\ reqs[r].st = "awaitFetch"
    /\ reqs' = [reqs EXCEPT
                  ![r].st = "done",
                  ![r].response = response,
                  ![r].error = IF parseBodyThrows(response, ClientTransformer)
                               THEN (IF IsJsonType(ContentTypeOf(response))
                                     THEN "SyntaxError" ELSE "TypeError")
                               ELSE @,
                  ![r].result = IF parseBodyThrows(response, ClientTransformer)
                                THEN @
                                ELSE ClientResult(response, ClientTransformer)]
    /\ UNCHANGED <<dispatcher, nodes, builds, behav, heap, frames, stack, microq, hist>>

\* The calls made through the proxies: call.method is the terminal ($get,
\* $post, $all), call.path the accumulated segments.
Terminal(method, path, params, init) ==
    Request(method, path, {}, NoValue, NoValue, params, init)

CallerCalls ==
    {Terminal(method, path, NoParams, "") :
        method \in {"GET", "POST"}, path \in {<<"r">>, <<"o">>}}
    \cup {Terminal("ALL", path, NoParams, init) :
            path \in {<<"r">>, <<"o">>}, init \in {"", "GET", "POST"}}
    \cup {Terminal(method, <<"u", ":id">>, params, "") :
            method \in {"GET", "POST"}, params \in {NoParams, {}, {<<"id", "a/b">>}}}
    \cup {Terminal("GET", <<"k", ":constructor">>, params, "") :
            params \in {NoParams, {}}}
    \cup {Terminal("GET", <<"s">>, NoParams, ""), Terminal("GET", <<"zz">>, NoParams, "")}

ClientCalls ==
    {Terminal("POST", <<"o">>, NoParams, "")}
    \cup {Terminal("ALL", <<"o">>, NoParams, init) : init \in {"", "POST"}}
    \cup {Terminal("GET", <<"u", ":id">>, params, "") :
            params \in {NoParams, {<<"id", "a/b">>}}}
    \cup {Terminal("GET", <<"k", ":constructor">>, params, "") :
            params \in {NoParams, {}}}

InitProxy ==
    /\ dispatcher \in {"caller", "client"}
    /\ behav = [fn \in Functions |-> Unobserved]
    /\ heap = [o \in 0..MaxReq |-> 0]
    /\ reqs = <<>>
    /\ frames = <<>>
    /\ stack = <<>>
    /\ microq = <<>>
    /\ hist = <<>>
    /\ nodes = <<RootNode(NoInit)>>
    /\ builds = NoBuild

NextProxy ==
    \/ \E q \in CallerCalls : Call(q)
    \/ \E q \in ClientCalls : ClientCall(q)
    \/ \E r \in 1..Len(reqs) : \E response \in TransportResponses :
          ClientSettle(r, response)
    \/ ExecRetMethod
    \/ ExecReturn
    \/ InvokeSettle
    \/ DispatchSettle

SpecProxy == InitProxy /\ [][NextProxy]_vars

(***************************************************************************)
(* Vocabulary of the dispatch claims.                                      *)
(***************************************************************************)
\* The registered transformers: the built-in json, then the configured ones.
Registered == <<jsonTransformer>> \o OptionTransformers

\* The first registered transformer of that name, the built-in json when
\* there is none.
SelectedFor(name) ==
    LET named == {i \in 1..Len(Registered) : TransformerName(Registered[i]) = name}
    IN  IF named = {} THEN jsonTransformer
        ELSE Registered[CHOOSE i \in named : \A j \in named : i <= j]

HeaderOf(r) == HeaderGet(reqs[r].req.headers, TRANSFORMER_HEADER)

\* C15: every dispatched request is served with one transformer, fixed by
\* its own x-asagi-transformer header alone: the first registered
\* transformer of that name, and the built-in json when the header is
\* absent, empty or names no registered transformer; the json-kind Output of
\* the request is serialized with it, and no selection makes the dispatch
\* fail: a dispatch fails only where the Response constructor rejects the
\* status the handler gave.
C15_TransformerSelection ==
    \A r \in ReqIds : Matched(r) =>
        /\ reqs[r].transformer =
              (IF HeaderOf(r) \in {NoValue, ""} THEN jsonTransformer
               ELSE SelectedFor(HeaderOf(r)))
        /\ reqs[r].outcome = "err" => reqs[r].thrown = ResponseError
        /\ (Done(r) /\ reqs[r].output.type = "json" /\ reqs[r].outcome # "err") =>
              reqs[r].response.body = Stringify(reqs[r].transformer, reqs[r].output.body)

\* One run serves a request naming superjson with superjson, then a request
\* naming an unregistered transformer with the built-in json, each with a
\* json-kind Output.
C15_Witness ==
    /\ dispatcher = "serverT"
    /\ \E r1, r2 \in ReqIds :
        /\ r1 < r2
        /\ Done(r1) /\ Done(r2)
        /\ HeaderOf(r1) = "superjson" /\ HeaderOf(r2) = "nope"
        /\ reqs[r1].output.type = "json" /\ reqs[r2].output.type = "json"
        /\ reqs[r1].response.body.enc = "superjson"
        /\ reqs[r2].response.body.enc = "json"


\* The routes registered under that method whose path pattern the request
\* path matches.
RoutesFor(method, path) ==
    {i \in 1..Len(Routes) :
        Routes[i].method = method /\ PathMatches(Routes[i].path, path)}

NoStepRan(r) == FramesOf(r) = {} /\ hist[r].started = <<>>

\* C16: the server serves a request with a route registered for the
\* request's method whose path matches when there is one (never with an ALL
\* route then), otherwise with an ALL route whose path matches, and
\* otherwise answers 404 Not Found without running any step.
C16_ServerDispatch ==
    \A r \in ReqIds :
        LET specific == RoutesFor(reqs[r].method, reqs[r].path)
            fallback == RoutesFor("ALL", reqs[r].path)
        IN  /\ specific # {} => reqs[r].route \in specific
            /\ (specific = {} /\ fallback # {}) => reqs[r].route \in fallback
            /\ (specific = {} /\ fallback = {}) =>
                  /\ reqs[r].route = 0
                  /\ Done(r)
                  /\ reqs[r].response = Res404
                  /\ NoStepRan(r)
            /\ reqs[r].route # 0 =>
                  hist[r].started[1] = StackOf(Routes[reqs[r].route])[1]

\* GET /r was answered by the GET route although the ALL route of the same
\* path is registered before it, and POST /r by the ALL route.
C16_Witness ==
    \E r1, r2 \in ReqIds :
        /\ Done(r1) /\ Done(r2)
        /\ reqs[r1].path = <<"r">> /\ reqs[r1].method = "GET"
        /\ reqs[r1].output.body.val = <<"hGet", "GET">>
        /\ reqs[r2].path = <<"r">> /\ reqs[r2].method = "POST"
        /\ reqs[r2].output.body.val = <<"hAll", "POST">>


\* The routes registered under that method with exactly that templated path.
TemplateRoutesFor(method, templatePath) ==
    {i \in 1..Len(Routes) :
        Routes[i].method = method /\ Routes[i].path = templatePath}

\* The call got as far as resolving its route: its path was built.
PathBuilt(r) == MissingParams(reqs[r].path, reqs[r].req.params) = {}

\* C17: a caller call runs the route registered under its method with
\* exactly its templated path when there is one, otherwise the ALL route of
\* that templated path, and otherwise fails with 'Route not found', no step
\* of any route having run.
C17_CallerResolution ==
    dispatcher = "caller" =>
        \A r \in ReqIds : PathBuilt(r) =>
            LET exact == TemplateRoutesFor(reqs[r].method, reqs[r].path)
                fallback == TemplateRoutesFor("ALL", reqs[r].path)
            IN  /\ exact # {} => reqs[r].route \in exact
                /\ (exact = {} /\ fallback # {}) => reqs[r].route \in fallback
                /\ (exact = {} /\ fallback = {}) =>
                      /\ reqs[r].route = 0
                      /\ reqs[r].error = "Route not found"
                      /\ reqs[r].result = NoResult
                      /\ \A f \in FrameIds : frames[f].req # r
                      /\ hist[r].started = <<>>
                /\ reqs[r].route # 0 =>
                      /\ reqs[r].error = ""
                      /\ reqs[r].chain = StackOf(Routes[reqs[r].route])
                      /\ hist[r].started[1] = reqs[r].chain[1]

\* $post on /r ran the ALL route (an exact GET route of that path exists,
\* no exact POST route), then $post on /u/:id, registered for GET only,
\* failed with Route not found.
C17_Witness ==
    /\ dispatcher = "caller"
    /\ \E r1, r2 \in ReqIds :
        /\ r1 < r2
        /\ Done(r1)
        /\ reqs[r1].path = <<"r">> /\ reqs[r1].method = "POST"
        /\ reqs[r1].output.body.val = <<"hAll", "POST">>
        /\ reqs[r2].path = <<"u", ":id">> /\ reqs[r2].method = "POST"
        /\ reqs[r2].error = "Route not found"


\* The templated path is registered under method ALL and under no other.
OnlyUnderAll(templatePath) ==
    /\ TemplateRoutesFor("ALL", templatePath) # {}
    /\ \A i \in 1..Len(Routes) :
          Routes[i].path = templatePath => Routes[i].method = "ALL"

\* Call r1 went through the terminal of a verb and call r2 through $all
\* with that verb as the method of its request-init (or with none, the verb
\* being GET), on the same path and with the same input.
SameVerb(r1, r2) ==
    /\ reqs[r1].req.terminal # "ALL"
    /\ reqs[r2].req.terminal = "ALL"
    /\ reqs[r2].req.init = reqs[r1].req.terminal
         \/ (reqs[r2].req.init = "" /\ reqs[r1].req.terminal = "GET")
    /\ reqs[r1].path = reqs[r2].path
    /\ reqs[r1].req.params = reqs[r2].req.params
    /\ reqs[r1].req.headers = reqs[r2].req.headers

\* C18: on a path registered only under ALL, a call of $<verb> and a call
\* of $all with request-init method <verb> run the same route with the same
\* request method and return the same result (through the client: hand the
\* same request to the transport); $all without a request-init method uses
\* GET.
C18_AllTerminal ==
    /\ \A r \in ReqIds :
          (reqs[r].req.terminal = "ALL" /\ reqs[r].req.init = "") =>
              /\ reqs[r].method = "GET"
              /\ reqs[r].sent # <<>> => reqs[r].sent[1].method = "GET"
    /\ \A r1, r2 \in ReqIds :
          (OnlyUnderAll(reqs[r1].path) /\ SameVerb(r1, r2)) =>
              /\ reqs[r1].method = reqs[r1].req.terminal
              /\ reqs[r2].method = reqs[r1].method
              /\ reqs[r1].sent = reqs[r2].sent
              /\ dispatcher = "caller" =>
                    /\ reqs[r1].route = reqs[r2].route
                    /\ reqs[r1].route # 0
                    /\ (Done(r1) /\ Done(r2)) =>
                          /\ reqs[r1].result = reqs[r2].result
                          /\ reqs[r1].response = reqs[r2].response

\* $post and $all with request-init method POST were both called on /o,
\* registered only under ALL, and both returned the handler's answer to a
\* POST request.
C18_Witness ==
    /\ dispatcher = "caller"
    /\ \E r1, r2 \in ReqIds :
        /\ OnlyUnderAll(reqs[r1].path) /\ SameVerb(r1, r2)
        /\ reqs[r1].req.terminal = "POST"
        /\ Done(r1) /\ Done(r2)
        /\ reqs[r1].result.shape = "full"
        /\ reqs[r1].result.data.val = <<"hO", "POST">>
        /\ reqs[r2].result.data.val = <<"hO", "POST">>


\* The positions of the `:name` segments of the call's path for which
\* input.params holds no value.
Unprovided(r) ==
    {j \in 1..Len(reqs[r].path) :
        /\ reqs[r].path[j] \in ParamSegments
        /\ \/ reqs[r].req.params = NoParams
           \/ ~\E p \in reqs[r].req.params : p[1] = ParamName(reqs[r].path[j])}

\* C19: a client or caller call whose path has a `:name` segment without a
\* value in input.params fails with an error naming such a parameter, the
\* transport function not having been invoked and no chain step having run.
C19_MissingParameter ==
    \A r \in ReqIds : Unprovided(r) # {} =>
        /\ \E j \in Unprovided(r) :
              reqs[r].error = "Missing path parameter: " \o ParamName(reqs[r].path[j])
        /\ reqs[r].sent = <<>>
        /\ \A f \in FrameIds : frames[f].req # r
        /\ hist[r].started = <<>>


\* The calls that returned a result.
Returned20(r) == Done(r) /\ reqs[r].result.shape # "none"

Populated(value) == value.enc # "undefined"

In2xx(status) == status >= 200 /\ status < 300

In4xx5xx(status) == status >= 400 /\ status < 600

\* C20: in every result of a client or caller call, ok is true exactly when
\* 200 <= status < 300, data is populated only then and error only when
\* 400 <= status < 600; for any other status data and error are both
\* undefined and ok is false; data and error are never both populated.  (A
\* result without a status field has neither ok, data nor error.)
C20_StatusPartition ==
    \A r \in ReqIds : Returned20(r) =>
        LET res == reqs[r].result
        IN  /\ res.ok <=> In2xx(res.status)
            /\ Populated(res.data) => In2xx(res.status)
            /\ Populated(res.error) => In4xx5xx(res.status)
            /\ (~In2xx(res.status) /\ ~In4xx5xx(res.status)) =>
                  /\ ~Populated(res.data)
                  /\ ~Populated(res.error)
                  /\ ~res.ok
            /\ ~(Populated(res.data) /\ Populated(res.error))

\* The client was answered 300 with a json body, and then 400: the first
\* result has neither data nor error and ok false, the second has the
\* parsed body as its error.
C20_Witness ==
    /\ dispatcher = "client"
    /\ \E r1, r2 \in ReqIds :
        /\ Returned20(r1) /\ Returned20(r2)
        /\ reqs[r1].result.status = 300
        /\ reqs[r1].response = JsonResponse(300)
        /\ ~Populated(reqs[r1].result.data) /\ ~Populated(reqs[r1].result.error)
        /\ ~reqs[r1].result.ok
        /\ reqs[r2].result.status = 400
        /\ reqs[r2].result.error = Payload("payload")
        /\ ~Populated(reqs[r2].result.data)


(***************************************************************************)
(* A client bound to the server: createClient({ fetch: (input, init) =>    *)
(* server.fetch(new Request(input, init)) }).  The request the client      *)
(* builds is the one the server dispatches, and the server's response is   *)
(* the one the client's request function continues with.                   *)
(***************************************************************************)
BoundCall(q) ==
    /\ dispatcher \in BoundClients
    /\ Idle
    /\ Len(reqs) < MaxReq
    /\ LET finalMethod == FinalMethod(q.method, MergedMethod(q))
           req == [q EXCEPT !.method = finalMethod,
                            !.headers = BuildRequest(q, TransformerName(ClientTransformer)).headers,
                            !.path = buildPath(q.path, q.params)]
           m == Match(Routes, req.method, req.path)
       IN  IF MissingParams(q.path, q.params) # {}
           THEN /\ reqs' = Append(reqs, [NewReq(q, 0) EXCEPT
                                            !.error = MissingParamError(q.path, q.params)])
                /\ hist' = Append(hist, NewHist(0))
                /\ UNCHANGED <<dispatcher, nodes, builds, behav, heap, frames, stack, microq>>
           ELSE IF m = 0
           THEN /\ reqs' = Append(reqs, [NewReq(req, 0) EXCEPT
                                            !.st = "awaitFetch", !.response = Res404])
                /\ hist' = Append(hist, NewHist(0))
                /\ UNCHANGED <<dispatcher, nodes, builds, behav, heap, frames, stack, microq>>
           ELSE StartChain(req, m, transformerFromHeader(
                                       HeaderGet(req.headers, TRANSFORMER_HEADER),
                                       configuredTransformers))

\* The bound client's request function continues with the server's response.
BoundSettle(r) ==
    /\ dispatcher \in BoundClients
    /\ r \in 1..Len(reqs)
    /\ ClientSettle(r, reqs[r].response)

\* The calls of the output specification: $get on /out, on a path no route
\* has, and on /u/:id without params.
OutputCalls ==
    {Terminal("GET", <<"out">>, NoParams, ""), Terminal("GET", <<"zz">>, NoParams, ""),
     Terminal("GET", <<"u", ":id">>, NoParams, "")}

InitOutput ==
    /\ dispatcher \in {"caller", "bound"}
    /\ behav = [fn \in Functions |-> Unobserved]
    /\ heap = [o \in 0..MaxReq |-> 0]
    /\ reqs = <<>>
    /\ frames = <<>>
    /\ stack = <<>>
    /\ microq = <<>>
    /\ hist = <<>>
    /\ nodes = <<RootNode(NoInit)>>
    /\ builds = NoBuild

NextOutput ==
    \/ \E q \in OutputCalls : Call(q)
    \/ \E q \in OutputCalls : BoundCall(q)
    \/ \E r \in 1..Len(reqs) : BoundSettle(r)
    \/ ExecReturn
    \/ InvokeSettle
    \/ DispatchSettle

SpecOutput == InitOutput /\ [][NextOutput]_vars


(***************************************************************************)
(* Vocabulary of the output claims.                                        *)
(***************************************************************************)
\* Call r has completed and a step of its chain returned an Output of kind t.
OutputKind(r, t) == Done(r) /\ reqs[r].route # 0 /\ reqs[r].output.type = t

\* C21: for a redirect-kind Output, both the client and the caller return
\* data = undefined and error = undefined whatever the status is (302 by
\* default, or any overridden status including 2xx and 4xx/5xx).
C21_RedirectUndefined ==
    \A r \in ReqIds :
        OutputKind(r, "redirect") =>
            /\ reqs[r].result.shape = "full"
            /\ reqs[r].result.data = Undefined
            /\ reqs[r].result.error = Undefined


\* Call r returned a result (it did not throw).
Completed(r) == Done(r) /\ reqs[r].error = ""

\* A status code as a Response carries it.
StatusCodes == 200..599

C23_ClientCallerEquivalence ==
    \A r \in ReqIds :
        (Done(r) /\ reqs[r].route # 0 /\ reqs[r].output.type \in {"json", "text"}) =>
            /\ Completed(r)
            /\ reqs[r].result = CallerResult(reqs[r].output)
            /\ reqs[r].result =
                  ClientResult(ensureResponse(reqs[r].output, ClientTransformer),
                               ClientTransformer)


\* The chain of call r recorded a tagged Output, normalized it, and its
\* response is that normalization.
NormalizedTagged(r) ==
    /\ reqs[r].route # 0
    /\ reqs[r].st \in {"awaitFetch", "done"}
    /\ reqs[r].outcome = "ok"
    /\ reqs[r].output.type \notin {"none", "response"}

ExplicitContentType(output) == HasHeader(output.headers, "content-type")

\* C26: when a tagged Output is normalized, its kind's default content-type
\* (json: application/json, text: text/plain; charset=utf-8) is set only if
\* the Output's explicit headers do not already contain a content-type; an
\* explicit content-type is never replaced, and all other explicit headers
\* and the status are carried to the response.
C26_DefaultContentType ==
    \A r \in ReqIds :
        NormalizedTagged(r) =>
            LET output == reqs[r].output
                response == reqs[r].response
            IN  /\ output.headers \subseteq response.headers
                /\ output.type \in {"json", "text"} =>
                      response.headers =
                          IF ExplicitContentType(output) THEN output.headers
                          ELSE output.headers \cup
                                  {<<"content-type", defaultContentTypes(output.type)>>}
                /\ \A h \in response.headers \ output.headers : h[1] = "content-type"
                /\ output.status # NoStatus => response.status = output.status

\* A json Output with an explicit text content-type has been normalized: the
\* response carries the explicit one.
C26_Witness ==
    \E r \in ReqIds :
        /\ NormalizedTagged(r)
        /\ reqs[r].output.type = "json"
        /\ ExplicitContentType(reqs[r].output)
        /\ HeaderGet(reqs[r].response.headers, "content-type") = TextType
        /\ reqs[r].response.status = 200


\* What a handler passes to the context's builders: a body, a status (0: no
\* status given, NoStatus: an init object whose status property holds
\* undefined), init headers, and a path for redirect.
GivenBodies == {"payload", "hello", "bytes"}

GivenStatuses == {0, NoStatus, 200, 201, 404, 500}

GivenHeaders ==
    {{}, {<<"x-extra", "1">>}, {<<"location", "/other">>},
     {<<"content-type", TextType>>}, {<<"content-type", JsonType>>}}

StatusGiven(status) == status \notin {0, NoStatus}

\* C27: an Output built by the context has status 200 for json/text/form/body
\* kinds and 302 for redirect unless a status is given explicitly, and a
\* redirect Output always carries a location header equal to the given path,
\* also when the supplied init headers contain a different location.
C27_BuilderDefaults ==
    \A r \in ReqIds : \A status \in GivenStatuses : \A headers \in GivenHeaders :
        /\ \A type \in {"json", "text", "form", "body"} : \A body \in GivenBodies :
              reqs[r].output = OutputBuilder(type, body, status, headers) =>
                  reqs[r].output.status = IF StatusGiven(status) THEN status ELSE 200
        /\ reqs[r].output = CtxRedirect("/x", status, headers) =>
              /\ reqs[r].output.status = IF StatusGiven(status) THEN status ELSE 302
              /\ HeaderGet(reqs[r].output.headers, "location") = "/x"


\* An exception escaped the chain of dispatch r, and runChain has returned.
Escaped(r) ==
    /\ reqs[r].route # 0
    /\ reqs[r].st \in {"awaitFetch", "done"}
    /\ reqs[r].outcome = "err"

\* C30: the response produced for an exception that escapes the chain is the
\* same (status 500, fixed body) for every exception: two dispatches that
\* differ only in the error value or message thrown return indistinguishable
\* responses.
C30_NoErrorLeak ==
    \A r1, r2 \in ReqIds :
        (Escaped(r1) /\ Escaped(r2) /\ reqs[r1].req = reqs[r2].req) =>
            /\ reqs[r1].response = reqs[r2].response
            /\ reqs[r1].response.status = 500
            /\ reqs[r1].response.body = RawBody("Internal Server Error")

\* Two dispatches of the same request whose chains threw different values.
C30_Witness ==
    \E r1, r2 \in ReqIds :
        /\ Escaped(r1) /\ Escaped(r2)
        /\ reqs[r1].req = reqs[r2].req
        /\ reqs[r1].thrown # reqs[r2].thrown
        /\ reqs[r1].thrown \in ErrorValues \ {""}


(***************************************************************************)
(* Servers created with basePath "/api".                                   *)
(***************************************************************************)
BaseRequests ==
    {Req(method, path) :
        method \in {"GET", "POST"},
        path \in {<<"api", "r">>, <<"api">>, <<"r">>, <<"api-internal", "r">>,
                  <<"api", "zz">>, <<"other", "api", "r">>}}

InitBase ==
    /\ dispatcher \in BasePathServers
    /\ behav = [fn \in Functions |-> Unobserved]
    /\ heap = [o \in 0..MaxReq |-> 0]
    /\ reqs = <<>>
    /\ frames = <<>>
    /\ stack = <<>>
    /\ microq = <<>>
    /\ hist = <<>>
    /\ nodes = <<RootNode(NoInit)>>
    /\ builds = NoBuild

NextBase ==
    \/ \E q \in BaseRequests : Fetch(q)
    \/ ExecRetMethod
    \/ InvokeSettle
    \/ DispatchSettle

SpecBase == InitBase /\ [][NextBase]_vars

\* The path of a request lies under the base path: its first segments are
\* the base path's.
UnderBase(path) == IsPrefix(BasePath, path)

\* C28: when the server is created with a basePath, a request whose path is
\* not under basePath gets a 404 response and no step runs, and a request
\* under basePath is matched against the routes by its path with the
\* basePath prefix removed ('/' when nothing remains).
C28_BasePath ==
    \A r \in ReqIds :
        IF UnderBase(reqs[r].path)
        THEN reqs[r].route =
                Match(Routes, reqs[r].method,
                      SubSeq(reqs[r].path, Len(BasePath) + 1, Len(reqs[r].path)))
        ELSE /\ reqs[r].route = 0
             /\ reqs[r].response = Res404
             /\ NoStepRan(r)


(***************************************************************************)
(* The path proxies.  A node is the state createNode was called with; a    *)
(* property access that is not a terminal creates a node, a terminal       *)
(* ($post here) builds and dispatches a request from the node's state.     *)
(***************************************************************************)
MaxNodes == 3

\* The properties navigated: /o and /r have routes, the root and the nested
\* paths have none.
Props == {"o", "r"}

\* Variant: the segment is pushed onto the array of the node accessed, which
\* the new node shares.
Accessed_Shared(ns, n, prop) ==
    LET nextSegments == Append(ns[n].segments, prop)
    IN  Append([ns EXCEPT ![n].segments = nextSegments],
               [parent |-> n, prop |-> prop, segments |-> nextSegments,
                requestInit |-> ns[n].requestInit])

\* get(_t, prop): const nextSegments = [...state.segments, prop];
\*                return createNode({ ...state, segments: nextSegments })
Accessed(ns, n, prop) ==
    LET nextSegments == Append(ns[n].segments, prop)
    IN  Append(ns, [parent |-> n, prop |-> prop, segments |-> nextSegments,
                    requestInit |-> ns[n].requestInit])

Access(n, prop) ==
    /\ Idle
    /\ Len(nodes) < MaxNodes
    /\ nodes' = Accessed(nodes, n, prop)
    /\ UNCHANGED <<dispatcher, builds, behav, heap, reqs, frames, stack, microq, hist>>

\* The request-init the proxies of this specification are created with.
DefaultInit ==
    RequestInit({<<"x-default", "d">>, <<"x-both", "default">>,
                 <<TRANSFORMER_HEADER, "default">>}, NoValue)

\* What a terminal is called with: input.json, input.form, input.headers,
\* input.cookie (serialized), and the per-call request-init.
ProxyInput(json, form, headers, cookie, initHeaders, initBody) ==
    [Request("POST", <<>>, headers, NoValue, json, NoParams, "") EXCEPT
        !.form = form, !.cookie = cookie,
        !.initHeaders = initHeaders, !.initBody = initBody]

ProxyInputs ==
    {ProxyInput(NoValue, NoValue, {}, NoValue, {}, NoValue),
     ProxyInput("j", "f", {}, NoValue, {}, NoValue),
     ProxyInput(NoValue, "f", {}, NoValue, {}, NullValue),
     ProxyInput("j", NoValue, {}, NoValue,
                {<<"x-both", "call">>, <<"x-call", "c">>}, "raw"),
     ProxyInput("j", NoValue, {}, NoValue,
                {<<"content-type", TextType>>, <<TRANSFORMER_HEADER, "custom">>},
                NoValue),
     ProxyInput(NoValue, NoValue, {<<"x-both", "input">>, <<TRANSFORMER_HEADER, "input">>},
                "a=1", {<<"x-both", "call">>, <<"cookie", "s=1">>}, NoValue)}

\* The terminal called on node n.
Via(n, input) ==
    [input EXCEPT !.path = nodes[n].segments, !.defaults = nodes[n].requestInit,
                  !.node = n]

NodeCall(n, input) ==
    /\ \/ Call(Via(n, input))
       \/ ClientCall(Via(n, input))

InitRequest ==
    /\ dispatcher \in {"caller", "client"}
    /\ behav = [fn \in Functions |-> Unobserved]
    /\ heap = [o \in 0..MaxReq |-> 0]
    /\ reqs = <<>>
    /\ frames = <<>>
    /\ stack = <<>>
    /\ microq = <<>>
    /\ hist = <<>>
    /\ nodes = <<RootNode(DefaultInit)>>
    /\ builds = NoBuild

\* Request building: chains of accesses that end in a terminal, as in
\* client.o.r.$post(input, requestInit): the terminal is called on the node
\* obtained last.
NextRequest ==
    \/ \E prop \in Props : Access(Len(nodes), prop)
    \/ \E input \in ProxyInputs : NodeCall(Len(nodes), input)
    \/ \E r \in 1..Len(reqs) : ClientSettle(r, JsonResponse(200))
    \/ ExecRetMethod
    \/ InvokeSettle
    \/ DispatchSettle

SpecRequest == InitRequest /\ [][NextRequest]_vars

\* Navigation: nodes are kept and accessed or called again, in any order.
NodeInputs == {ProxyInput(NoValue, NoValue, {}, NoValue, {}, NoValue)}

NextNodes ==
    \/ \E n \in 1..Len(nodes) : \E prop \in Props : Access(n, prop)
    \/ \E n \in 1..Len(nodes) : \E input \in NodeInputs : NodeCall(n, input)
    \/ \E r \in 1..Len(reqs) : ClientSettle(r, JsonResponse(200))
    \/ ExecRetMethod
    \/ InvokeSettle
    \/ DispatchSettle

SpecNodes == InitRequest /\ [][NextNodes]_vars


(***************************************************************************)
(* Vocabulary of the request claims.                                       *)
(***************************************************************************)
\* Call r built a request: the one the client handed to the transport, or
\* the one the caller constructed for the chain.
HasSent(r) == reqs[r].sent # <<>> \/ reqs[r].req.built # <<>>

SentBy(r) == IF reqs[r].sent # <<>> THEN reqs[r].sent[1] ELSE reqs[r].req.built[1]

\* The body of the merged request-init of call r: the per-call one when the
\* per-call init has a body property, the default's otherwise.
MergedBody(q) == IF q.initBody # NoValue THEN q.initBody ELSE q.defaults.body

\* A content-type given by the default init, the per-call init or the input.
GivenContentType(q) ==
    HasHeader(q.defaults.headers \cup q.initHeaders \cup q.headers, "content-type")

\* C24: the request body built by a client or caller call is: the explicit
\* body of the merged request-init when one is present; otherwise the JSON
\* encoding of input.json when given (setting content-type application/json
\* only if no content-type is already set); otherwise the form encoding of
\* input.form when given; otherwise no body.  A json and a form body are
\* never both encoded.
C24_RequestBody ==
    \A r \in ReqIds :
        HasSent(r) =>
            LET q == reqs[r].req
                sent == SentBy(r)
            IN  /\ sent.body =
                      IF MergedBody(q) \notin {NoValue, NullValue}
                      THEN RawBody(MergedBody(q))
                      ELSE IF q.json # NoValue
                      THEN Stringify(jsonTransformer, Payload(q.json))
                      ELSE IF q.form # NoValue
                      THEN [enc |-> "form", val |-> q.form]
                      ELSE NullBody
                /\ IF GivenContentType(q)
                   THEN HeaderGet(sent.headers, "content-type") \in
                           {h[2] : h \in {g \in q.defaults.headers \cup q.initHeaders
                                               \cup q.headers : g[1] = "content-type"}}
                   ELSE IF sent.body.enc = "json"
                   THEN HeaderGet(sent.headers, "content-type") = JsonType
                   ELSE ~HasHeader(sent.headers, "content-type")

\* A call that gave input.json and a request-init body sent the init's body,
\* and one that gave json and form sent the json encoding under the json
\* content-type.
C24_Witness ==
    \E r1, r2 \in ReqIds :
        /\ HasSent(r1) /\ HasSent(r2)
        /\ reqs[r1].req.json # NoValue /\ reqs[r1].req.initBody = "raw"
        /\ SentBy(r1).body = RawBody("raw")
        /\ reqs[r2].req.json # NoValue /\ reqs[r2].req.form # NoValue
        /\ SentBy(r2).body.enc = "json"
        /\ HeaderGet(SentBy(r2).headers, "content-type") = JsonType


\* The keys whose value in the request is not the merged init's: those
\* input.headers gives, cookie when input.cookie is given, and the
\* transformer header the client sets.
SetAfterMerge(r) ==
    {h[1] : h \in reqs[r].req.headers}
    \cup (IF reqs[r].req.cookie # NoValue THEN {"cookie"} ELSE {})
    \cup (IF reqs[r].sent # <<>> THEN {TRANSFORMER_HEADER} ELSE {})

\* C25 (as stated): the headers of a dispatched request contain every header
\* of the default request-init set at proxy construction and every header of
\* the per-call request-init; on a key present in both, the per-call value
\* is used, and default headers not overridden are preserved.
C25_InitHeaders ==
    \A r \in ReqIds :
        HasSent(r) =>
            LET q == reqs[r].req
            IN  /\ q.initHeaders \subseteq SentBy(r).headers
                /\ \A h \in q.defaults.headers :
                      ~HasHeader(q.initHeaders, h[1]) => h \in SentBy(r).headers

\* C25 (amended): the same, for every key that is neither given by
\* input.headers, nor cookie when input.cookie is given, nor (for the
\* client) the transformer header; on those keys the request carries the
\* input's value, the init's cookie header followed by the input's cookies,
\* and (whatever input.headers gives for it) the client's transformer name.
C25_MergedHeaders ==
    \A r \in ReqIds :
        HasSent(r) =>
            LET q == reqs[r].req
                sent == SentBy(r)
                merged == {h \in q.defaults.headers : ~HasHeader(q.initHeaders, h[1])}
                          \cup q.initHeaders
            IN  /\ \A h \in merged : h[1] \notin SetAfterMerge(r) => h \in sent.headers
                /\ \A h \in q.headers :
                      (reqs[r].sent # <<>> /\ h[1] = TRANSFORMER_HEADER) \/ h \in sent.headers
                /\ q.cookie # NoValue =>
                      HeaderGet(sent.headers, "cookie") =
                          IF HasHeader(merged \cup q.headers, "cookie")
                          THEN HeaderGet(buildHeaders(merged, q.headers, NoValue), "cookie")
                                  \o "; " \o q.cookie
                          ELSE q.cookie
                /\ reqs[r].sent # <<>> =>
                      HeaderGet(sent.headers, TRANSFORMER_HEADER) =
                          TransformerName(ClientTransformer)

\* A call whose init overrides one default header: the request carries the
\* per-call value and the other default header.
C25_Witness ==
    \E r \in ReqIds :
        /\ HasSent(r)
        /\ reqs[r].req.headers = {}
        /\ <<"x-both", "default">> \in reqs[r].req.defaults.headers
        /\ <<"x-both", "call">> \in reqs[r].req.initHeaders
        /\ <<"x-both", "call">> \in SentBy(r).headers
        /\ <<"x-default", "d">> \in SentBy(r).headers
        /\ ~HasHeader(SentBy(r).headers \ {<<"x-both", "call">>}, "x-both")


\* The properties accessed from the root on the way to node n.
RECURSIVE PathTo(_)
PathTo(n) ==
    IF nodes[n].parent = 0 THEN <<>>
    ELSE Append(PathTo(nodes[n].parent), nodes[n].prop)

\* C29: accessing a segment on a path-proxy node returns a new node and never
\* changes the node it was accessed on: for any sequence of navigations and
\* calls, the path used by a terminal call is exactly the sequence of
\* segments accessed on the way to that terminal, unaffected by other
\* branches navigated from the same ancestor node.
C29_FreshNodes ==
    /\ \A n \in 1..Len(nodes) :
          /\ nodes[n].segments = PathTo(n)
          /\ nodes[n].parent < n
    /\ \A r \in ReqIds :
          reqs[r].req.node # 0 =>
              /\ reqs[r].path = PathTo(reqs[r].req.node)
              /\ HasSent(r) => SentBy(r).path = PathTo(reqs[r].req.node)

\* Two branches were navigated from one node; a terminal was called on the
\* first, and later one on their common ancestor.
C29_Witness ==
    \E r1, r2 \in ReqIds : \E n1, n2 \in 1..Len(nodes) :
        /\ r1 < r2 /\ n1 < n2
        /\ nodes[n1].parent = nodes[n2].parent
        /\ nodes[n1].prop # nodes[n2].prop
        /\ reqs[r1].req.node = n1
        /\ reqs[r2].req.node = nodes[n1].parent
        /\ HasSent(r1) /\ HasSent(r2)
        /\ SentBy(r1).path = PathTo(n1)
        /\ SentBy(r2).path = PathTo(nodes[n1].parent)


(***************************************************************************)
(* Building the routes.  A builder object holds its middleware array by    *)
(* reference (builds.arrays is the store of arrays, a builder's            *)
(* middlewares field an index into it); use(), input(), basePath() and the *)
(* method properties return a new object, handle() returns the route.      *)
(* Each object also records where it came from: the object the operation   *)
(* was called on (parent) and the middleware the operation named (added).  *)
(***************************************************************************)
MaxBuilt == 4

Builder(kind, prefix, path, method, middlewares, parent, added) ==
    [kind |-> kind, prefix |-> prefix, path |-> path, method |-> method,
     middlewares |-> middlewares, parent |-> parent, added |-> added]

\* createApp(): new AppBuilder('', [], {})
AppBuilt ==
    [arrays |-> <<<<>>>>,
     builders |-> <<Builder("app", <<>>, <<>>, "", 1, 0, <<>>)>>,
     routes |-> <<>>]

\* resolveMiddleware(middleware) / toMiddlewareList(middleware): the array
\* of the middleware builder b, or the one function fn when b is 0.
resolveMiddleware(bs, fn, b) ==
    IF b # 0 THEN bs.arrays[bs.builders[b].middlewares] ELSE <<fn>>

\* Variant: use() pushes onto the array the receiver holds and hands that
\* array to the new builder.
BuilderUse_Push(bs, b, list) ==
    LET this == bs.builders[b]
    IN  [bs EXCEPT
           !.arrays = [@ EXCEPT ![this.middlewares] = @ \o list],
           !.builders = Append(@, [this EXCEPT !.parent = b, !.added = list])]

\* use(middleware) and input(schemas) of the three builders:
\*   new Builder(..., [...this.middlewares, ...list])
BuilderUse(bs, b, list) ==
    LET this == bs.builders[b]
    IN  [bs EXCEPT
           !.arrays = Append(@, @[this.middlewares] \o list),
           !.builders = Append(@, [this EXCEPT !.middlewares = Len(bs.arrays) + 1,
                                               !.parent = b, !.added = list])]

\* AppBuilder.basePath(path):
\*   new AppBuilder(joinPath(this.prefix, path), this.middlewares, ...)
BuilderBasePath(bs, b, path) ==
    LET this == bs.builders[b]
    IN  [bs EXCEPT
           !.builders = Append(@, [this EXCEPT !.prefix = @ \o path,
                                               !.parent = b, !.added = <<>>])]

\* app.createMiddleware(): new MiddlewareBuilder([], {})
BuilderCreateMiddleware(bs) ==
    [bs EXCEPT
       !.arrays = Append(@, <<>>),
       !.builders = Append(@, Builder("mw", <<>>, <<>>, "", Len(bs.arrays) + 1, 0, <<>>))]

\* app.get(path): new RouteBuilder(this.prefix, path, method, this.middlewares, ...)
BuilderRoute(bs, b, method, path) ==
    LET this == bs.builders[b]
    IN  [bs EXCEPT
           !.builders = Append(@, Builder("route", this.prefix, path, method,
                                          this.middlewares, b, <<>>))]

\* RouteBuilder.handle(handler): { method, path, middlewares: this.middlewares, handler }
BuilderHandle(bs, b, handler) ==
    LET this == bs.builders[b]
    IN  [bs EXCEPT
           !.routes = Append(@, [method |-> this.method,
                                 path |-> this.prefix \o this.path,
                                 middlewares |-> this.middlewares,
                                 handler |-> handler, from |-> b])]

Built == Len(builds.builders) + Len(builds.routes)

\* The middleware builders use() can be given.
MiddlewareBuilders == {b \in 1..Len(builds.builders) : builds.builders[b].kind = "mw"}

\* A statement of the program that builds: one builder operation.
Build ==
    /\ Idle
    /\ Built <= MaxBuilt
    /\ \E b \in 1..Len(builds.builders) :
          LET kind == builds.builders[b].kind
          IN  \/ \E fn \in {"m1", "m2"} :
                    builds' = BuilderUse(builds, b, resolveMiddleware(builds, fn, 0))
              \/ \E mb \in MiddlewareBuilders :
                    builds' = BuilderUse(builds, b, resolveMiddleware(builds, "", mb))
              \/ builds' = BuilderUse(builds, b, <<createInputValidator({"query"})>>)
              \/ kind = "app" /\ builds' = BuilderBasePath(builds, b, <<"x">>)
              \/ kind = "app" /\ b = 1 /\ builds' = BuilderCreateMiddleware(builds)
              \/ kind = "app" /\ builds' = BuilderRoute(builds, b, "GET", <<"a">>)
              \/ kind = "route" /\ builds' = BuilderHandle(builds, b, "h1")
    /\ UNCHANGED <<dispatcher, nodes, behav, heap, reqs, frames, stack, microq, hist>>

\* The route as createServer reads it when it dispatches: route.middlewares
\* is whatever the array holds then.
RouteBuilt(i) ==
    [method |-> builds.routes[i].method, path |-> builds.routes[i].path,
     middlewares |-> builds.arrays[builds.routes[i].middlewares],
     handler |-> builds.routes[i].handler]

\* createServer(createRouter(routes)).fetch(req), over the routes built.
FetchBuilt(q) ==
    /\ Idle
    /\ Len(reqs) < MaxReq
    /\ LET m == Match(builds.routes, q.method, q.path)
       IN  /\ m # 0
           /\ StartChainOf(q, m, StackOf(RouteBuilt(m)), jsonTransformer)

BuildRequests ==
    {Request("GET", path, {}, "good", NoValue, {}, "") : path \in {<<"a">>, <<"x", "a">>}}

InitBuild ==
    /\ dispatcher = "server"
    /\ behav = [fn \in Functions |-> Unobserved]
    /\ heap = [o \in 0..MaxReq |-> 0]
    /\ reqs = <<>>
    /\ frames = <<>>
    /\ stack = <<>>
    /\ microq = <<>>
    /\ hist = <<>>
    /\ nodes = <<RootNode(NoInit)>>
    /\ builds = AppBuilt

NextBuild ==
    \/ Build
    \/ \E q \in BuildRequests : FetchBuilt(q)
    \/ ExecValidate
    \/ ExecDecide
    \/ ExecNext
    \/ ExecRetMethod
    \/ InvokeSettle
    \/ ResumeStep
    \/ DispatchSettle

SpecBuild == InitBuild /\ [][NextBuild]_vars


\* The middleware a builder holds according to where it came from: what
\* the builder it was obtained from held then, followed by what the
\* operation added.
RECURSIVE Lineage(_)
Lineage(b) ==
    IF builds.builders[b].parent = 0 THEN <<>>
    ELSE Lineage(builds.builders[b].parent) \o builds.builders[b].added

\* The builders a builder was obtained from, itself included.
RECURSIVE Ancestry(_)
Ancestry(b) ==
    IF builds.builders[b].parent = 0 THEN {b}
    ELSE {b} \cup Ancestry(builds.builders[b].parent)

HeldBy(b) == builds.arrays[builds.builders[b].middlewares]

\* C31: use(), input() and basePath() never modify the builder they are
\* called on, nor any other object built before: every builder holds the
\* middleware of the builder it came from followed by what its own
\* operation added, every route those of the route builder handle() was
\* called on, and a dispatched route runs exactly these and then its
\* handler; every step leaves the builders, arrays and routes that exist as
\* they are.
C31_BuildersImmutable ==
    /\ [](/\ \A b \in 1..Len(builds.builders) : HeldBy(b) = Lineage(b)
          /\ \A i \in 1..Len(builds.routes) :
                builds.arrays[builds.routes[i].middlewares] = Lineage(builds.routes[i].from)
          /\ \A r \in ReqIds : Done(r) =>
                hist[r].started =
                    Append(Lineage(builds.routes[reqs[r].route].from),
                           builds.routes[reqs[r].route].handler))
    /\ [][/\ \A b \in 1..Len(builds.builders) :
                /\ b <= Len(builds'.builders)
                /\ builds'.builders[b] = builds.builders[b]
          /\ \A a \in 1..Len(builds.arrays) :
                /\ a <= Len(builds'.arrays)
                /\ builds'.arrays[a] = builds.arrays[a]
          /\ \A i \in 1..Len(builds.routes) :
                /\ i <= Len(builds'.routes)
                /\ builds'.routes[i] = builds.routes[i]]_vars

\* A route has been dispatched to the end whose route builder was made
\* after a builder in its ancestry had been given more middleware on another
\* branch (app.use(m) before app.get('/a')).
C31_Witness ==
    /\ \E r \in ReqIds :
        /\ Done(r)
        /\ LET f == builds.routes[reqs[r].route].from
           IN  \E b \in 1..Len(builds.builders) :
                  /\ b < f
                  /\ b \notin Ancestry(f)
                  /\ builds.builders[b].parent \in Ancestry(f)
                  /\ builds.builders[b].added # <<>>
                  /\ HeldBy(b) # HeldBy(f)


(***************************************************************************)
(* Form outputs: GET /form, whose handler returns c.form(...), called      *)
(* through a client bound to the server and through a caller.              *)
(***************************************************************************)
FormCalls == {Terminal("GET", <<"form">>, NoParams, "")}

InitForm ==
    /\ dispatcher \in {"caller", "bound"}
    /\ behav = [fn \in Functions |-> Unobserved]
    /\ heap = [o \in 0..MaxReq |-> 0]
    /\ reqs = <<>>
    /\ frames = <<>>
    /\ stack = <<>>
    /\ microq = <<>>
    /\ hist = <<>>
    /\ nodes = <<RootNode(NoInit)>>
    /\ builds = NoBuild

NextForm ==
    \/ \E q \in FormCalls : Call(q)
    \/ \E q \in FormCalls : BoundCall(q)
    \/ \E r \in 1..Len(reqs) : BoundSettle(r)
    \/ ExecReturn
    \/ InvokeSettle
    \/ DispatchSettle

SpecForm == InitForm /\ [][NextForm]_vars

\* The entries of a form payload or of parsed form data, as a set: the
\* order of the keys of an object is not part of its value.
Entries(body) == {body.val[i] : i \in 1..Len(body.val)}

\* A client call whose handler returned a form-kind Output has completed
\* with data.
FormReceived(r) ==
    /\ dispatcher = "bound"
    /\ OutputKind(r, "form")
    /\ reqs[r].result.shape = "full"
    /\ reqs[r].result.ok

\* C32: the data a client obtains from the response of a form-kind Output
\* equals the Output's payload: the same keys, each with the same value, a
\* scalar as a scalar and an array as an array of the same items in the
\* same order, whatever the length of the array.
C32_FormRoundTrip ==
    \A r \in ReqIds : FormReceived(r) =>
        /\ reqs[r].result.data.enc = "value"
        /\ Entries(reqs[r].result.data) = Entries(reqs[r].output.body)


(***************************************************************************)
(* Vocabulary of C33..C35.                                                 *)
(***************************************************************************)
\* runChain of request r is about to continue after `await invoke(0)`:
\* what it returns now is the final response.
Settling(r) == stack = <<>> /\ microq # <<>> /\ Head(microq) = -r

\* The response runChain is about to return.
FinalResponse(r) == ChainResponse(reqs[r].outcome, reqs[r].res, reqs[r].thrown)

\* The steps of request r that have returned an Output which invoke has
\* taken up.
Outs(r) == {f \in FramesOf(r) : frames[f].rkind = "out" /\ frames[f].st = "done"}

\* Among them, those of the earliest-declared step.
Outermost(r) == {f \in Outs(r) : \A g \in Outs(r) : frames[f].idx <= frames[g].idx}

(***************************************************************************)
(* C33 as stated.  When several steps of a request have returned an Output *)
(* and the chain has completed, the step that returned last is the         *)
(* outermost of them and the final response is its normalized Output.      *)
(***************************************************************************)
C33_AsStated ==
    \A r \in ReqIds : (Settling(r) /\ Cardinality(Outs(r)) >= 2) =>
        /\ hist[r].lastOut \in Outermost(r)
        /\ FinalResponse(r) = NormalizedOutputOf(hist[r].lastOut)

(***************************************************************************)
(* C33, amended.  When several steps of a request have returned an Output  *)
(* and the chain has completed, the step that returned last is the         *)
(* outermost of them; the final response is its normalized Output unless   *)
(* a step assigned c.res after that Output had been normalized (the final  *)
(* response is then the response assigned last) or an exception escaped    *)
(* the chain (the final response is then the fixed 500 response).          *)
(***************************************************************************)
C33_LastOutput ==
    \A r \in ReqIds : (Settling(r) /\ Cardinality(Outs(r)) >= 2) =>
        LET w == hist[r].writer
        IN  /\ hist[r].lastOut \in Outermost(r)
            /\ w.kind # "init"
            /\ w.kind = "norm" => w.by = hist[r].lastOut
            /\ FinalResponse(r) =
                  (IF reqs[r].outcome = "err" THEN Res500
                   ELSE IF w.kind = "set" THEN AssignedBy(w.by)
                   ELSE NormalizedOutputOf(hist[r].lastOut))

\* A dispatch has returned the Output of mA, which awaited proceed() and
\* then returned it, after the handler downstream had returned its own.
C33_Witness ==
    \E r \in ReqIds :
        /\ Done(r)
        /\ behav["mA"] = "retAfter" /\ behav["mB"] = "pass" /\ behav["hA"] = "json"
        /\ hist[r].started = <<"mA", "mB", "hA">>
        /\ Cardinality(Outs(r)) = 2
        /\ reqs[r].response = ensureResponse(OutNamed("override"), jsonTransformer)
        /\ reqs[r].response # ensureResponse(OutNamed("ok"), jsonTransformer)


\* The activations of step idx of the chain of request r.
ExecutionsOf(r, idx) == {f \in FramesOf(r) : frames[f].idx = idx}

\* C34: within one dispatch every step of the chain, the handler included,
\* is executed at most once, however often the steps call proceed().
C34_AtMostOnce ==
    \A r \in ReqIds : \A idx \in 1..Len(reqs[r].chain) :
        Cardinality(ExecutionsOf(r, idx)) <= 1


\* response.ok
ResOk(response) == response.status >= 200 /\ response.status <= 299

\* C35: in every result of a caller call that carries status and ok, status
\* is the status of res and ok is res.ok, whatever the chain did: also when
\* a middleware assigned c.res after proceed() and when an exception
\* escaped the chain after a step had returned an Output.
C35_StatusMatchesRes ==
    \A r \in ReqIds :
        (dispatcher = "caller" /\ Done(r) /\ reqs[r].result.shape = "full") =>
            /\ reqs[r].result.status = reqs[r].response.status
            /\ reqs[r].result.ok = ResOk(reqs[r].response)


\* The values of the transformer header in a set of headers.
TransformerHeaderValues(headers) == {h[2] : h \in {g \in headers : g[1] = TRANSFORMER_HEADER}}

\* C36: every request a client sends carries the x-asagi-transformer header
\* exactly once, with the name of the client's configured transformer,
\* whatever the default request-init, the per-call request-init and
\* input.headers give for that header.
C36_TransformerHeader ==
    \A r \in ReqIds : (dispatcher = "client" /\ HasSent(r)) =>
        TransformerHeaderValues(SentBy(r).headers) = {TransformerName(ClientTransformer)}

\* A client has sent a request for a call whose input.headers and whose
\* default request-init both name another transformer, and one whose
\* per-call request-init does.
C36_Witness ==
    /\ dispatcher = "client"
    /\ \E r1, r2 \in ReqIds :
        /\ HasSent(r1) /\ HasSent(r2)
        /\ TransformerHeaderValues(reqs[r1].req.headers) = {"input"}
        /\ TransformerHeaderValues(reqs[r1].req.defaults.headers) = {"default"}
        /\ TransformerHeaderValues(reqs[r2].req.initHeaders) = {"custom"}
        /\ TransformerHeaderValues(SentBy(r1).headers) = {"json"}
        /\ TransformerHeaderValues(SentBy(r2).headers) = {"json"}


(***************************************************************************)
(* Client/server pairs: a client created with or without a transformer,    *)
(* bound to a server created with or without options.transformers.         *)
(***************************************************************************)
InitPair ==
    /\ dispatcher \in BoundClients
    /\ behav = [fn \in Functions |-> Unobserved]
    /\ heap = [o \in 0..MaxReq |-> 0]
    /\ reqs = <<>>
    /\ frames = <<>>
    /\ stack = <<>>
    /\ microq = <<>>
    /\ hist = <<>>
    /\ nodes = <<RootNode(NoInit)>>
    /\ builds = NoBuild

NextPair ==
    \/ \E q \in OutputCalls : BoundCall(q)
    \/ \E r \in 1..Len(reqs) : BoundSettle(r)
    \/ ExecReturn
    \/ InvokeSettle
    \/ DispatchSettle

SpecPair == InitPair /\ [][NextPair]_vars

\* The client's request function of call r has gone through parseBody with
\* the response a json-kind Output was normalized to, and that response
\* has the json content-type, so that the body went to transformer.parse.
JsonParsed(r) ==
    /\ dispatcher \in BoundClients
    /\ reqs[r].st = "done"
    /\ NormalizedTagged(r)
    /\ reqs[r].output.type = "json"
    /\ IsJsonType(ContentTypeOf(reqs[r].response))

\* C37: for every client/server pair and every json-kind response, the
\* transformer the client parses the body with has the same name as the
\* transformer the server stringified it with (the one the body is encoded
\* by), also when the client's transformer is not registered on the server.
C37_SameTransformerName ==
    \A r \in ReqIds :
        JsonParsed(r) =>
            /\ reqs[r].response.body.enc = reqs[r].transformer
            /\ TransformerName(ClientTransformer) = TransformerName(reqs[r].response.body.enc)


(***************************************************************************)
(* Methods: terminals $get, $post and $all called on proxies created with  *)
(* or without a method in the default request-init, with or without a      *)
(* method in the per-call request-init.                                    *)
(***************************************************************************)
MethodInits == {NoInit, [NoInit EXCEPT !.method = "PUT"]}

MethodCalls ==
    {Terminal(method, <<>>, NoParams, init) :
        method \in {"GET", "POST", "ALL"}, init \in {"", "DELETE"}}

InitMethod ==
    /\ dispatcher \in {"caller", "client"}
    /\ behav = [fn \in Functions |-> Unobserved]
    /\ heap = [o \in 0..MaxReq |-> 0]
    /\ reqs = <<>>
    /\ frames = <<>>
    /\ stack = <<>>
    /\ microq = <<>>
    /\ hist = <<>>
    /\ \E init \in MethodInits : nodes = <<RootNode(init)>>
    /\ builds = NoBuild

NextMethod ==
    \/ \E prop \in Props : Access(Len(nodes), prop)
    \/ \E input \in MethodCalls : NodeCall(Len(nodes), input)
    \/ \E r \in 1..Len(reqs) : ClientSettle(r, JsonResponse(200))
    \/ ExecRetMethod
    \/ InvokeSettle
    \/ DispatchSettle

SpecMethod == InitMethod /\ [][NextMethod]_vars

\* The method the request-inits of call r give: the per-call one's, else
\* the default one's, else none ("").
GivenMethod(r) ==
    IF reqs[r].req.init # "" THEN reqs[r].req.init ELSE reqs[r].req.defaults.method

\* C38: for a terminal other than $all, the method of the dispatched
\* request (and, in the caller, the method the route is resolved with) is
\* the terminal's verb, whatever method the default or the per-call
\* request-init contains; only $all takes its method from the request-init
\* (GET when it gives none).
C38_TerminalVerb ==
    \A r \in ReqIds :
        LET verb == reqs[r].req.terminal
            expected == IF verb # "ALL" THEN verb
                        ELSE IF GivenMethod(r) # "" THEN GivenMethod(r) ELSE "GET"
        IN  /\ reqs[r].method = expected
            /\ HasSent(r) => SentBy(r).method = expected
            /\ (dispatcher = "caller" /\ reqs[r].route # 0) =>
                  /\ Routes[reqs[r].route].method \in {expected, "ALL"}
                  /\ Done(r) /\ reqs[r].result.shape = "full" =>
                        reqs[r].result.data.val[2] = expected

\* A $post of the caller was dispatched as POST although the default
\* request-init says PUT and the per-call one DELETE, and its handler saw
\* POST; a $all in the same run took DELETE.
C38_Witness ==
    /\ dispatcher = "caller"
    /\ \E r1, r2 \in ReqIds :
        /\ reqs[r1].req.terminal = "POST"
        /\ reqs[r1].req.defaults.method = "PUT"
        /\ reqs[r1].req.init = "DELETE"
        /\ reqs[r1].route # 0
        /\ Done(r1)
        /\ reqs[r1].result.data.val[2] = "POST"
        /\ reqs[r2].req.terminal = "ALL"
        /\ reqs[r2].req.init = "DELETE"
        /\ reqs[r2].method = "DELETE"

=============================================================================
